---------------------------- MODULE Spec2Model ----------------------------
(***************************************************************************)
(* A model of aishell (nborwankar/aishell): the collate operation of the   *)
(* CLI and of the interactive shell, the LLM providers' query and          *)
(* stream_query, the transcript logger, the MCP client, the `mcp` commands *)
(* and the natural-language-to-MCP translator; the interactive shell's     *)
(* command history, prompt loop and execute_command; the environment       *)
(* manager and the settings of a query; the shell's `export` and `env`     *)
(* built-ins with the readers of the environment; and file search.         *)
(*                                                                         *)
(* Each component has its own variables, initial condition, actions and    *)
(* specification; a specification holds the other components' variables at *)
(* their initial (idle) values.                                            *)
(***************************************************************************)
EXTENDS Integers, Sequences, FiniteSets, TLC

(***************************************************************************)
(* State                                                                   *)
(***************************************************************************)

\* Collate.
VARIABLES
    impl,        \* "cli" | "shell": which implementation runs
    providers,   \* the providers as declared by the user, in order
    tasks,       \* [name, state]: the coroutine objects, in creation order
    results,     \* [name, response]: results / responses_for_transcript
    table,       \* rows of the rendered collation table / panels
    cpc          \* position of the collate run

collateVars == <<impl, providers, tasks, results, table, cpc>>

\* provider.query().
VARIABLES
    qProvider,   \* the provider whose query() runs
    qKey,        \* whether self.api_key is set
    qStream,     \* the stream argument
    qpc,         \* position inside query()
    qResponse,   \* <<the LLMResponse returned>> (<<>> until then)
    qRaised,     \* an exception left query()
    qFailure     \* <<where, exception or reason>> of the failure met, else <<>>

queryVars == <<qProvider, qKey, qStream, qpc, qResponse, qRaised, qFailure>>

\* provider.stream_query().
VARIABLES
    sProvider,   \* the provider whose stream_query() runs
    sKey,        \* whether self.api_key is set
    spc,         \* position inside stream_query()
    chunks,      \* the chunks yielded so far
    received,    \* stream events received so far
    sRaised,     \* an exception left the generator
    sFailure     \* <<where, exception or reason>> of the failure met, else <<>>

streamVars == <<sProvider, sKey, spc, chunks, received, sRaised, sFailure>>

\* The transcript logger (LLMTranscriptManager) and its two files.
VARIABLES
    transcript,  \* LLMTranscript.md: the entries appended, in order
    errors,      \* LLMErrors.md: the entries appended, in order
    now,         \* the clock the timestamps are read from
    failed       \* history: <<timestamp, error text>> of each failed interaction

logVars == <<transcript, errors, now, failed>>

\* One MCPClient.
VARIABLES
    _request_id, \* self._request_id
    _session,    \* self._session: None | "open" | "closed"
    wire,        \* the JSON bodies posted to the server, in order
    issued,      \* the values _get_next_id() has returned, in order
    sends,       \* calls of send_message so far
    last         \* <<record of the last send_message call>> (<<>> before any)

clientVars == <<_request_id, _session, wire, issued, sends, last>>

\* One run of the `mcp` subcommand or of the shell's `mcp` built-in.
VARIABLES
    mImpl,       \* "cli" | "shell"
    mArgs,       \* [raw, message, method, params]: the command's arguments
    mpc,         \* position of the run
    init_response, \* <<the response to initialize>> (<<>> until then)
    mSource      \* the request source the run resolved, None if none

cmdVars == <<mImpl, mArgs, mpc, init_response, mSource>>

\* One call of NLToMCPTranslator.translate().
VARIABLES
    tQuery,      \* the query argument
    llm_provider, \* whether the translator was given an LLM provider
    tpc,         \* position inside translate()
    tPattern,    \* <<message>> that parse_simple_query returned (<<>>: None)
    llmQueries,  \* the outcomes of the calls of llm_provider.query(), in order
    tMessage,    \* <<message>> of the strategy tried last (<<>>: None)
    tResult,     \* <<the MCPMessage returned>> (<<>> until then)
    tRaised      \* an exception left translate()

trVars ==
    <<tQuery, llm_provider, tpc, tPattern, llmQueries, tMessage, tResult, tRaised>>

\* CommandHistory (shell/intelligent_shell.py).
VARIABLES
    history,      \* self.history, the commands in memory
    history_file, \* ~/.aishell_history: <<its lines>>, or <<>> when absent
    addArgs,      \* every argument add() was called with, in order
    lastAdd       \* <<what the last add() was given, found and left>>

histVars == <<history, history_file, addArgs, lastAdd>>

\* IntelligentShell.run (shell/intelligent_shell.py).
VARIABLES
    rpc,          \* where run() is: at its prompt, at a y/n question, left by
                  \* break, or ended by an exception (raised)
    nl_converter, \* whether the shell has a natural-language converter
    rCommand,     \* the command a question is about
    executed,     \* the commands execute_command() was called with
    lines,        \* the lines read at the prompt
    lastLine,     \* <<what became of the last command that was settled>>
    no_history,   \* the shell was started with --no-history
    lastEvent     \* <<the last pass through the loop: what was read, what was
                  \*   raised and at which step, and where run() went next>>

runVars == <<rpc, nl_converter, rCommand, executed, lines, lastLine,
             no_history, lastEvent>>

\* IntelligentShell.execute_command (shell/intelligent_shell.py).
VARIABLES
    current_dir,      \* self.current_dir, the tracked directory
    cwd,              \* the working directory of the process
    default_provider, \* DEFAULT_LLM_PROVIDER, or 'claude' when it is not set
    calls,            \* the calls of execute_command()
    xLast             \* <<what the last call was given, did and returned>>

execVars == <<current_dir, cwd, default_provider, calls, xLast>>

\* EnvManager (utils/env_manager.py).
VARIABLES
    env_file,     \* the .env file: <<its lines>>, or <<>> when there is none
    environ,      \* os.environ, as far as the manager wrote it
    _loaded_vars, \* the record of what was loaded from the file
    loaded_file,  \* <<the file as the last successful load found it>>
    loads,        \* the calls of load_env() and reload_env()
    setCalls,     \* the calls of set_var()
    eLast         \* <<what the last load found, did and reported>>

envVars == <<env_file, environ, _loaded_vars, loaded_file, loads, setCalls,
            eLast>>

\* The settings of the last query.
VARIABLES
    cLast         \* <<what the last query was given and what it used>>

cfgVars == <<cLast>>

\* A session of the shell: its `export` and `env` built-ins and the readers
\* of the environment (shell/intelligent_shell.py).
VARIABLES
    env_vars,     \* self.env_vars, what `export` set
    written,      \* for each variable, the value written to it last
    commands,     \* the built-ins and commands of the session
    vLast         \* <<what the last of them showed, handed over, sent, logged>>

sessionVars == <<env_vars, written, commands, vLast>>

\* File search (search/file_search.py).
VARIABLES
    spotlight_available, \* self.spotlight_available
    searches,            \* the calls of search_files()
    fLast                \* <<what the last call was given, ran and found>>

searchVars == <<spotlight_available, searches, fLast>>

\* The components modelled after the settings of a query.
lateVars == <<sessionVars, searchVars>>

\* The interactive shell and the environment manager.
shellVars == <<histVars, runVars, execVars, envVars, cfgVars, lateVars>>

vars == <<collateVars, queryVars, streamVars, logVars, clientVars, cmdVars,
          trVars, shellVars>>

\* What the actions of one component leave alone.
mcpVars == <<clientVars, cmdVars, trVars>>
notCollate == <<queryVars, streamVars, mcpVars, shellVars>>
notQuery == <<collateVars, streamVars, logVars, mcpVars, shellVars>>
notStream == <<collateVars, queryVars, logVars, mcpVars, shellVars>>
notLog == <<collateVars, queryVars, streamVars, mcpVars, shellVars>>
llmVars == <<collateVars, queryVars, streamVars, logVars>>
notClient == <<llmVars, cmdVars, trVars, shellVars>>
notCmd == <<llmVars, trVars, shellVars>>
notTranslate == <<llmVars, clientVars, cmdVars, shellVars>>
notShell == <<llmVars, mcpVars>>
notHistory == <<notShell, runVars, execVars, envVars, cfgVars, lateVars>>
notRun == <<notShell, execVars, envVars, cfgVars, lateVars>>
notExec == <<notShell, histVars, runVars, envVars, cfgVars, lateVars>>
notEnv == <<notShell, histVars, runVars, execVars, cfgVars, lateVars>>
notConfig == <<notShell, histVars, runVars, execVars, lateVars>>
notSession == <<notShell, histVars, runVars, execVars, cfgVars, searchVars>>
notSearch == <<notShell, histVars, runVars, execVars, envVars, cfgVars, sessionVars>>

(***************************************************************************)
(* Shared values                                                           *)
(***************************************************************************)

\* Python's None.
None == "None"

\* The four provider names both collate implementations and `llm` accept.
valid_providers == <<"claude", "openai", "ollama", "gemini">>

ValidProviderSet == {valid_providers[i] : i \in 1..Len(valid_providers)}

\* Sequences over S of length 0..n.
SeqsUpTo(S, n) == UNION {[1..k -> S] : k \in 0..n}

\* LLMResponse(content, model, provider, error=None); usage and metadata are
\* not read by any property here and are left out.
LLMResponse(content, model, provider, error) ==
    [content |-> content, model |-> model, provider |-> provider, error |-> error]

\* LLMResponse.is_error: `self.error is not None`.
is_error(response) == response.error # None

(***************************************************************************)
(* Transcript logger: utils/transcript.py                                  *)
(***************************************************************************)

\* A text is a sequence of pieces; an error message is one piece, so that
\* "the raw error text appears in" is "is a piece of".
TerseBody(timestamp) == [terse |-> TRUE, see |-> timestamp, text |-> <<>>]

FullBody(timestamp, text) == [terse |-> FALSE, see |-> timestamp, text |-> text]

\* transcript.py 34-48: _log_error appends the full detail to the error file.
_log_error(errs, timestamp, query, error, provider) ==
    Append(errs, [timestamp |-> timestamp, query |-> query,
                  provider |-> provider, error |-> error])

\* Python truthiness of the `error` argument (`if error:`).
Truthy(x) == x # None /\ x # ""

\* transcript.py 50-95: the transcript entry log_interaction appends: the
\* terse pointer when `error` is given, else the response text.
InteractionEntry(timestamp, query, response, provider, error) ==
    [timestamp |-> timestamp, query |-> query, multi |-> FALSE,
     sections |-> <<[provider |-> provider,
                     body |-> IF Truthy(error) THEN TerseBody(timestamp)
                              ELSE FullBody(timestamp, response)]>>]

\* transcript.py 56-58: the error file after log_interaction.
InteractionErrors(errs, timestamp, query, provider, error) ==
    IF Truthy(error) THEN _log_error(errs, timestamp, query, error, provider)
    ELSE errs

\* transcript.py 97-153: the one entry log_multi_interaction appends, with a
\* subsection per response in the order of `responses`.
MultiEntry(timestamp, query, responses) ==
    [timestamp |-> timestamp, query |-> query, multi |-> TRUE,
     sections |-> [i \in 1..Len(responses) |->
        [provider |-> responses[i].name,
         body |-> IF is_error(responses[i].response)
                  THEN TerseBody(timestamp)
                  ELSE FullBody(timestamp, <<responses[i].response.content>>)]]]

\* transcript.py 122-126: the error file after log_multi_interaction.
RECURSIVE MultiErrors(_, _, _, _)
MultiErrors(errs, timestamp, query, responses) ==
    IF responses = <<>> THEN errs
    ELSE LET r == responses[1]
             e == IF is_error(r.response)
                  THEN _log_error(errs, timestamp, query, r.response.error, r.name)
                  ELSE errs
         IN  MultiErrors(e, timestamp, query, Tail(responses))

LogInit ==
    /\ transcript = <<>>
    /\ errors = <<>>
    /\ now = 1
    /\ failed = <<>>

(***************************************************************************)
(* Collate: cli.collate.run_multi_query and                                *)
(* IntelligentShell._handle_collate.run_comparison                         *)
(***************************************************************************)

\* Longest list of -p options the CLI model is given.
MaxDeclared == 3

\* Names a user can type; "bogus" stands for any name outside valid_providers.
TypedNames == ValidProviderSet \cup {"bogus"}

\* cli.py 294-295: no -p option selects all four providers.
CliProviders(declared) == IF declared = <<>> THEN valid_providers ELSE declared

\* cli.py 309: active_providers = {name: provider_map[name] for name in
\* providers}: a dict keeps one entry per key, in first-insertion order.
RECURSIVE active_providers(_)
active_providers(declared) ==
    IF declared = <<>> THEN <<>>
    ELSE LET front == active_providers(SubSeq(declared, 1, Len(declared) - 1))
             name  == declared[Len(declared)]
         IN  IF \E i \in 1..Len(front) : front[i] = name
             THEN front ELSE Append(front, name)

\* The names for which a coroutine is created, in creation order.
\* cli.py 316-323 iterates the dict; intelligent_shell.py 745-749 iterates
\* the two-element list.
TaskNames(i, declared) ==
    IF i = "cli" THEN active_providers(CliProviders(declared)) ELSE declared

\* Calling an `async def` creates a coroutine object and runs none of its body:
\* the query is issued only when the coroutine is awaited.
NewTask(name) == [name |-> name, state |-> "created", outcome |-> None]

\* What awaiting one provider.query() coroutine can produce.
QueryOutcomes == {"success", "error_response", "raises"}

\* The response of a provider whose query returned.
ProviderResponse(name, outcome) ==
    IF outcome = "success"
    THEN LLMResponse("content", "model", name, None)
    ELSE LLMResponse("", "model", name, "provider error")

\* cli.py 332-341 / intelligent_shell.py 779-788: the except branch builds an
\* error response for the provider and appends it.
OnExceptionDrop(res, name) == res

OnException(res, name) ==
    Append(res, [name |-> name,
                 response |-> LLMResponse("", "unknown", name, "str(e)")])

\* cli.py 330-331 / intelligent_shell.py 763-764.
OnResponse(res, name, outcome) ==
    Append(res, [name |-> name, response |-> ProviderResponse(name, outcome)])

\* One rendered row: the provider and whether the row shows an error.
Row(r) == [provider |-> r.name, error |-> is_error(r.response)]

CollateInit ==
    /\ impl \in {"cli", "shell"}
    /\ providers \in IF impl = "cli"
                     THEN SeqsUpTo(ValidProviderSet, MaxDeclared)
                     ELSE [1..2 -> TypedNames]
    /\ tasks = <<>>
    /\ results = <<>>
    /\ table = <<>>
    /\ cpc = "start"

CollateIdle ==
    /\ impl = "cli"
    /\ providers = <<>>
    /\ tasks = <<>>
    /\ results = <<>>
    /\ table = <<>>
    /\ cpc = "idle"

\* intelligent_shell.py 705-709: an unknown name returns exit code 1 before
\* any provider is constructed or queried.
ShellReject ==
    /\ cpc = "start"
    /\ impl = "shell"
    /\ \E i \in 1..Len(providers) : providers[i] \notin ValidProviderSet
    /\ cpc' = "rejected"
    /\ UNCHANGED <<impl, providers, tasks, results, table, logVars>>
    /\ UNCHANGED notCollate

\* cli.py 316-323 / intelligent_shell.py 745-749: the loop that calls
\* provider.query(...) once per provider and keeps the coroutine objects.
CreateTasks ==
    /\ cpc = "start"
    /\ impl = "shell" => \A i \in 1..Len(providers) : providers[i] \in ValidProviderSet
    /\ LET names == TaskNames(impl, providers)
       IN  tasks' = [i \in 1..Len(names) |-> NewTask(names[i])]
    /\ cpc' = "gather"
    /\ UNCHANGED <<impl, providers, results, table, logVars>>
    /\ UNCHANGED notCollate

\* The index of the task the gather loop (`for name, task in tasks`) is at.
CurrentTask == Cardinality({i \in 1..Len(tasks) : tasks[i].state = "done"}) + 1

\* cli.py 330 / intelligent_shell.py 763: `await task` starts the coroutine;
\* its request goes out now.
AwaitTask ==
    /\ cpc = "gather"
    /\ CurrentTask <= Len(tasks)
    /\ tasks[CurrentTask].state = "created"
    /\ tasks' = [tasks EXCEPT ![CurrentTask].state = "running"]
    /\ UNCHANGED <<impl, providers, results, table, logVars, cpc>>
    /\ UNCHANGED notCollate

\* The awaited coroutine finishes: it returns a response or raises.
\* The shell adds the table row inside the loop (766-794).
TaskResolves ==
    /\ cpc = "gather"
    /\ CurrentTask <= Len(tasks)
    /\ tasks[CurrentTask].state = "running"
    /\ \E outcome \in QueryOutcomes :
         LET name == tasks[CurrentTask].name
             res  == IF outcome = "raises"
                     THEN OnException(results, name)
                     ELSE OnResponse(results, name, outcome)
         IN  /\ results' = res
             /\ table' = IF impl = "shell"
                         THEN [i \in 1..Len(res) |-> Row(res[i])]
                         ELSE table
             /\ tasks' = [tasks EXCEPT ![CurrentTask].state = "done",
                                       ![CurrentTask].outcome = outcome]
    /\ UNCHANGED <<impl, providers, logVars, cpc>>
    /\ UNCHANGED notCollate

\* cli.py 344-395: log_multi_interaction, then the table or the panels.
\* intelligent_shell.py 796-800: print the table, then log_multi_interaction.
CollateFinish ==
    /\ cpc = "gather"
    /\ CurrentTask > Len(tasks)
    /\ transcript' = Append(transcript, MultiEntry(now, "query", results))
    /\ errors' = MultiErrors(errors, now, "query", results)
    /\ table' = [i \in 1..Len(results) |-> Row(results[i])]
    /\ cpc' = "done"
    /\ UNCHANGED <<impl, providers, tasks, results, now, failed>>
    /\ UNCHANGED notCollate

CollateNext ==
    \/ ShellReject
    \/ CreateTasks
    \/ AwaitTask
    \/ TaskResolves
    \/ CollateFinish


(***************************************************************************)
(* LLM providers: query()                                                  *)
(* claude.py, openai.py, gemini.py, openrouter.py, ollama.py               *)
(***************************************************************************)

AllProviders == {"claude", "openai", "ollama", "gemini", "openrouter"}

\* Providers whose validate_config is bool(self.api_key).
KeyedProviders == AllProviders \ {"ollama"}

\* Exception classes the SDK, aiohttp and the response handling can raise.
\* ClientError stands for aiohttp.ClientError and its subclasses
\* (ClientConnectorError, ContentTypeError, ClientPayloadError).
ClientErrors == {"ClientError"}
OtherErrors == {"ImportError", "TimeoutError", "ValueError", "IndexError"}
Exceptions == ClientErrors \cup OtherErrors

\* claude.py 61-67 (and the same lines of openai, gemini, openrouter).
ApiKeyNotConfigured(p) == LLMResponse("", "model", p, "API key not configured")

\* The provider-prefixed message of the except branch.
ApiErrorMessage(p) ==
    CASE p = "claude" -> "Claude API error: str(e)"
      [] p = "openai" -> "OpenAI API error: str(e)"
      [] p = "gemini" -> "Gemini API error: str(e)"
      [] p = "openrouter" -> "OpenRouter API error: str(e)"

\* ollama.py 157-170: aiohttp.ClientError first, any other Exception second.
OllamaErrorMessage(exc) ==
    IF exc \in ClientErrors
    THEN "Connection error: str(e). Is Ollama running?"
    ELSE "Ollama error: str(e)"

ModelNotFound == "Model 'm' not found. Pull it with: ollama pull m"

\* `except Exception` catches every exception class above.
CaughtByQueryNarrow(p, exc) == exc \in ClientErrors

CaughtByQuery(p, exc) == exc \in Exceptions

\* The except branch of query(): claude.py 115-121, openai.py 118-124,
\* gemini.py 144-150, openrouter.py 154-160, ollama.py 157-170.
QueryExcept(p, exc) ==
    LLMResponse("", "model", p,
                IF p = "ollama" THEN OllamaErrorMessage(exc) ELSE ApiErrorMessage(p))

\* An exception raised inside the try block of query().
QueryRaises(where, exc) ==
    /\ qFailure' = <<where, exc>>
    /\ IF CaughtByQuery(qProvider, exc)
       THEN /\ qResponse' = <<QueryExcept(qProvider, exc)>>
            /\ qRaised' = FALSE
       ELSE /\ qResponse' = <<>>
            /\ qRaised' = TRUE
    /\ qpc' = "done"

\* query() returns an error response it builds itself.
QueryReturnsError(where, why, message) ==
    /\ qFailure' = <<where, why>>
    /\ qResponse' = <<LLMResponse("", "model", qProvider, message)>>
    /\ qRaised' = FALSE
    /\ qpc' = "done"

QueryInit ==
    /\ qProvider \in AllProviders
    /\ qKey \in BOOLEAN
    /\ qStream \in BOOLEAN
    /\ qpc = "start"
    /\ qResponse = <<>>
    /\ qRaised = FALSE
    /\ qFailure = <<>>

QueryIdle ==
    /\ qProvider = "claude"
    /\ qKey = FALSE
    /\ qStream = FALSE
    /\ qpc = "idle"
    /\ qResponse = <<>>
    /\ qRaised = FALSE
    /\ qFailure = <<>>

\* claude.py 61-67: validate_config, before the try block.
QValidate ==
    /\ qpc = "start"
    /\ qProvider \in KeyedProviders
    /\ IF ~qKey
       THEN /\ qFailure' = <<"validate", "no key">>
            /\ qResponse' = <<ApiKeyNotConfigured(qProvider)>>
            /\ qpc' = "done"
       ELSE /\ qpc' = "client"
            /\ UNCHANGED <<qFailure, qResponse>>
    /\ UNCHANGED <<qProvider, qKey, qStream, qRaised>>
    /\ UNCHANGED notQuery

\* claude.py 70 / 38-49: _get_client; the SDK import may fail.
QGetClient ==
    /\ qpc = "client"
    /\ \/ /\ qpc' = "call"
          /\ UNCHANGED <<qResponse, qRaised, qFailure>>
       \/ QueryRaises("client", "ImportError")
    /\ UNCHANGED <<qProvider, qKey, qStream>>
    /\ UNCHANGED notQuery

\* claude.py 87-99 / openai.py 92-102 / gemini.py 94-119 / openrouter.py
\* 119-129: the awaited SDK call (and, when streaming, the iteration).
QCall ==
    /\ qpc = "call"
    /\ \/ /\ qpc' = "read"
          /\ UNCHANGED <<qResponse, qRaised, qFailure>>
       \/ \E exc \in {"ClientError", "TimeoutError"} : QueryRaises("call", exc)
    /\ UNCHANGED <<qProvider, qKey, qStream>>
    /\ UNCHANGED notQuery

\* claude.py 100-113: reading content and usage out of the SDK's reply, then
\* the success response.
QRead ==
    /\ qpc = "read"
    /\ \/ /\ \E content \in {"content", ""} :
               qResponse' = <<LLMResponse(content, "model", qProvider, None)>>
          /\ qpc' = "done"
          /\ UNCHANGED <<qRaised, qFailure>>
       \/ \E exc \in {"IndexError", "ValueError"} : QueryRaises("read", exc)
    /\ UNCHANGED <<qProvider, qKey, qStream>>
    /\ UNCHANGED notQuery

\* What GET /api/tags can do.
TagsOutcomes == {"refused", "status", "badjson", "absent", "present"}

\* ollama.py 40-51: _check_model_exists is True only for a 200 reply whose
\* model list has the model; any exception (connection refused, bad JSON)
\* is swallowed and gives False.
_check_model_exists(outcome) == outcome = "present"

\* ollama.py 66-73.
QCheckModel ==
    /\ qpc = "start"
    /\ qProvider = "ollama"
    /\ \E outcome \in TagsOutcomes :
         IF _check_model_exists(outcome)
         THEN /\ qpc' = "post"
              /\ UNCHANGED <<qResponse, qRaised, qFailure>>
         ELSE QueryReturnsError("tags", outcome, ModelNotFound)
    /\ UNCHANGED <<qProvider, qKey, qStream>>
    /\ UNCHANGED notQuery

\* ollama.py 92-105: POST /api/generate.
QPost ==
    /\ qpc = "post"
    /\ \/ /\ qpc' = "body"
          /\ UNCHANGED <<qResponse, qRaised, qFailure>>
       \/ QueryReturnsError("post", "status", "Ollama API error: error_text")
       \/ \E exc \in {"ClientError", "TimeoutError"} : QueryRaises("post", exc)
    /\ UNCHANGED <<qProvider, qKey, qStream>>
    /\ UNCHANGED notQuery

\* ollama.py 107-155: the body is read (line by line when streaming; a line
\* that is not JSON is skipped) and the success response is built.
QBody ==
    /\ qpc = "body"
    /\ \/ /\ \E content \in {"content", ""} :
               qResponse' = <<LLMResponse(content, "model", qProvider, None)>>
          /\ qpc' = "done"
          /\ UNCHANGED <<qRaised, qFailure>>
       \/ QueryRaises("body", "ClientError")
       \/ /\ ~qStream
          /\ QueryRaises("body", "ValueError")
    /\ UNCHANGED <<qProvider, qKey, qStream>>
    /\ UNCHANGED notQuery

QueryNext ==
    \/ QValidate
    \/ QGetClient
    \/ QCall
    \/ QRead
    \/ QCheckModel
    \/ QPost
    \/ QBody

(***************************************************************************)
(* LLM providers: stream_query()                                           *)
(***************************************************************************)

\* Most content chunks one stream delivers in the model.
MaxChunks == 2

\* The error chunk of the except branch: claude.py 152-153, openai.py
\* 161-162, gemini.py 193-194, openrouter.py 197-198, ollama.py 224-227.
StreamErrorChunk(p, exc) ==
    IF p = "ollama"
    THEN (IF exc \in ClientErrors
          THEN "Error: Connection error: str(e). Is Ollama running?"
          ELSE "Error: str(e)")
    ELSE "Error: " \o ApiErrorMessage(p)

ErrorChunks ==
    {StreamErrorChunk(p, e) : p \in AllProviders, e \in Exceptions}
      \cup {"Error: API key not configured",
            "Error: " \o ModelNotFound,
            "Error: Ollama API error: error_text"}

\* `except Exception` around the body of the generator.
CaughtByStreamNarrow(p, exc) == exc \in ClientErrors

CaughtByStream(p, exc) == exc \in Exceptions

\* The generator yields one chunk and returns.
YieldErrorAndReturn(where, why, chunk) ==
    /\ sFailure' = <<where, why>>
    /\ chunks' = Append(chunks, chunk)
    /\ spc' = "done"
    /\ UNCHANGED sRaised

\* An exception raised inside the try block of stream_query().
StreamRaises(where, exc) ==
    IF CaughtByStream(sProvider, exc)
    THEN YieldErrorAndReturn(where, exc, StreamErrorChunk(sProvider, exc))
    ELSE /\ sFailure' = <<where, exc>>
         /\ sRaised' = TRUE
         /\ spc' = "done"
         /\ UNCHANGED chunks

StreamInit ==
    /\ sProvider \in AllProviders
    /\ sKey \in BOOLEAN
    /\ spc = "start"
    /\ chunks = <<>>
    /\ received = 0
    /\ sRaised = FALSE
    /\ sFailure = <<>>

StreamIdle ==
    /\ sProvider = "claude"
    /\ sKey = FALSE
    /\ spc = "idle"
    /\ chunks = <<>>
    /\ received = 0
    /\ sRaised = FALSE
    /\ sFailure = <<>>

\* claude.py 132-134.
SValidate ==
    /\ spc = "start"
    /\ sProvider \in KeyedProviders
    /\ IF ~sKey
       THEN YieldErrorAndReturn("validate", "no key", "Error: API key not configured")
       ELSE /\ spc' = "client"
            /\ UNCHANGED <<chunks, sRaised, sFailure>>
    /\ UNCHANGED <<sProvider, sKey, received>>
    /\ UNCHANGED notStream

\* claude.py 137.
SGetClient ==
    /\ spc = "client"
    /\ \/ /\ spc' = "open"
          /\ UNCHANGED <<chunks, sRaised, sFailure>>
       \/ StreamRaises("client", "ImportError")
    /\ UNCHANGED <<sProvider, sKey, received>>
    /\ UNCHANGED notStream

\* claude.py 148 / openai.py 155 / gemini.py 183-187 / openrouter.py 191:
\* the stream is opened.
SOpen ==
    /\ spc = "open"
    /\ \/ /\ spc' = "stream"
          /\ UNCHANGED <<chunks, sRaised, sFailure>>
       \/ \E exc \in {"ClientError", "TimeoutError"} : StreamRaises("open", exc)
    /\ UNCHANGED <<sProvider, sKey, received>>
    /\ UNCHANGED notStream

\* ollama.py 185-187.
SCheckModel ==
    /\ spc = "start"
    /\ sProvider = "ollama"
    /\ \E outcome \in TagsOutcomes :
         IF _check_model_exists(outcome)
         THEN /\ spc' = "post"
              /\ UNCHANGED <<chunks, sRaised, sFailure>>
         ELSE YieldErrorAndReturn("tags", outcome, "Error: " \o ModelNotFound)
    /\ UNCHANGED <<sProvider, sKey, received>>
    /\ UNCHANGED notStream

\* ollama.py 204-213.
SPost ==
    /\ spc = "post"
    /\ \/ /\ spc' = "stream"
          /\ UNCHANGED <<chunks, sRaised, sFailure>>
       \/ YieldErrorAndReturn("post", "status", "Error: Ollama API error: error_text")
       \/ \E exc \in {"ClientError", "TimeoutError"} : StreamRaises("post", exc)
    /\ UNCHANGED <<sProvider, sKey, received>>
    /\ UNCHANGED notStream

\* claude.py 149-150 / openai.py 157-159 / gemini.py 189-191 / ollama.py
\* 215-222: one event of the stream. An event with text is yielded; an event
\* without text (an empty delta, a line that is not JSON) is skipped.
SEvent ==
    /\ spc = "stream"
    /\ received < MaxChunks
    /\ received' = received + 1
    /\ \/ chunks' = Append(chunks, "text")
       \/ UNCHANGED chunks
    /\ UNCHANGED <<sProvider, sKey, spc, sRaised, sFailure>>
    /\ UNCHANGED notStream

\* The transport fails while the stream is being read.
SBreaks ==
    /\ spc = "stream"
    /\ \E exc \in {"ClientError", "TimeoutError"} : StreamRaises("stream", exc)
    /\ UNCHANGED <<sProvider, sKey, received>>
    /\ UNCHANGED notStream

\* The stream ends and the generator returns.
SEnd ==
    /\ spc = "stream"
    /\ spc' = "done"
    /\ UNCHANGED <<sProvider, sKey, chunks, received, sRaised, sFailure>>
    /\ UNCHANGED notStream

StreamNext ==
    \/ SValidate
    \/ SGetClient
    \/ SOpen
    \/ SCheckModel
    \/ SPost
    \/ SEvent
    \/ SBreaks
    \/ SEnd


(***************************************************************************)
(* The callers of the logger: CLI `query`, shell `llm`, collate            *)
(***************************************************************************)

\* Interactions one session of the model performs.
MaxInteractions == 2

\* Most text chunks of a logged stream.
MaxLoggedChunks == 1

\* Providers the logged interactions use (the logger treats all alike).
LogProviders == {"claude", "ollama"}

\* The error texts a provider reports (see query() and stream_query()).
RawErrors == {"API key not configured", "API error: str(e)"}

\* What provider.query() returns: content without error, or error with
\* empty content.
QueryResults(p) ==
    {LLMResponse("content", "model", p, None)}
      \cup {LLMResponse("", "model", p, e) : e \in RawErrors}

\* What provider.stream_query() yields: text chunks and, after a failure, one
\* last chunk f"Error: {message}". Each chunk is a text (a sequence of pieces).
StreamResults ==
    LET texts == SeqsUpTo({<<"text">>}, MaxLoggedChunks)
    IN  texts \cup {Append(t, <<"Error: ", e>>) : t \in texts, e \in RawErrors}

\* streamed_content += chunk, over all chunks.
RECURSIVE streamed_content(_)
streamed_content(cs) ==
    IF cs = <<>> THEN <<>> ELSE cs[1] \o streamed_content(Tail(cs))

\* The error text a stream ended with, or None.
StreamError(cs) ==
    IF cs # <<>> /\ cs[Len(cs)][1] = "Error: " THEN cs[Len(cs)][2] ELSE None

\* log_interaction(query, response, provider, model, usage, error): both files
\* and the clock after the call.
log_interaction(query, response, provider, error) ==
    /\ transcript' = Append(transcript,
                            InteractionEntry(now, query, response, provider, error))
    /\ errors' = InteractionErrors(errors, now, query, provider, error)
    /\ now' = now + 1

\* The history of failed interactions.
NoteFailure(error) ==
    failed' = IF error = None THEN failed
              ELSE Append(failed, [timestamp |-> now, error |-> error])

\* cli.py 229-273: `aishell query` without --stream. An error response is
\* logged through `response=f"ERROR: {response.error}"`, with no `error`.
CliQuery ==
    /\ now <= MaxInteractions
    /\ \E p \in LogProviders : \E response \in QueryResults(p) :
         /\ IF is_error(response)
            THEN log_interaction("query", <<"ERROR: ", response.error>>, p, None)
            ELSE log_interaction("query", <<response.content>>, p, None)
         /\ NoteFailure(response.error)
    /\ UNCHANGED notLog

\* cli.py 204-228: `aishell query --stream`.
CliQueryStream ==
    /\ now <= MaxInteractions
    /\ \E p \in LogProviders : \E cs \in StreamResults :
         /\ log_interaction("query", streamed_content(cs), p, None)
         /\ NoteFailure(StreamError(cs))
    /\ UNCHANGED notLog

\* intelligent_shell.py 597-631: shell `llm` without --stream. An error
\* response is logged with response="" and error=response.error.
ShellLlm ==
    /\ now <= MaxInteractions
    /\ \E p \in LogProviders : \E response \in QueryResults(p) :
         /\ IF is_error(response)
            THEN log_interaction("query", <<>>, p, response.error)
            ELSE log_interaction("query", <<response.content>>, p, None)
         /\ NoteFailure(response.error)
    /\ UNCHANGED notLog

\* intelligent_shell.py 582-596: shell `llm ... --stream`.
ShellLlmStream ==
    /\ now <= MaxInteractions
    /\ \E p \in LogProviders : \E cs \in StreamResults :
         /\ log_interaction("query", streamed_content(cs), p, None)
         /\ NoteFailure(StreamError(cs))
    /\ UNCHANGED notLog

\* cli.py 344 / intelligent_shell.py 799-800: a finished collate of two
\* providers logs its results with log_multi_interaction.
CollateLogs ==
    /\ now <= MaxInteractions
    /\ \E names \in [1..2 -> LogProviders] :
       \E rs \in [1..2 -> UNION {QueryResults(p) : p \in LogProviders}] :
         LET responses == [i \in 1..2 |-> [name |-> names[i], response |-> rs[i]]]
             errs == SelectSeq(responses, LAMBDA r : is_error(r.response))
         IN  /\ \A i \in 1..2 : rs[i].provider = names[i]
             /\ transcript' = Append(transcript, MultiEntry(now, "query", responses))
             /\ errors' = MultiErrors(errors, now, "query", responses)
             /\ failed' = failed \o [i \in 1..Len(errs) |->
                             [timestamp |-> now, error |-> errs[i].response.error]]
             /\ now' = now + 1
    /\ UNCHANGED notLog

LogNext ==
    \/ CliQuery
    \/ CliQueryStream
    \/ ShellLlm
    \/ ShellLlmStream
    \/ CollateLogs

(***************************************************************************)
(* MCP messages and client: mcp/client.py                                  *)
(***************************************************************************)

\* Calls of send_message and of _get_next_id one client of the model serves.
MaxRequests == 3

\* A message id: None, an int or a str.
NoId == [kind |-> "none", n |-> 0, s |-> ""]

IntId(n) == [kind |-> "int", n |-> n, s |-> ""]

StrId(s) == [kind |-> "str", n |-> 0, s |-> s]

\* params: None or a dict given as its <<key, value>> items.
NoParams == [given |-> FALSE, items |-> <<>>]

Params(items) == [given |-> TRUE, items |-> items]

MCPMessage(method, params, id) ==
    [method |-> method, params |-> params, id |-> id]

\* MCPMessage.to_dict: params and id are present only when not None.
to_dict(message) ==
    [keys |-> {"jsonrpc", "method"}
                \cup (IF message.params.given THEN {"params"} ELSE {})
                \cup (IF message.id # NoId THEN {"id"} ELSE {}),
     method |-> message.method, params |-> message.params, id |-> message.id]

\* MCPResponse; error is <<[code, message, data]>> or <<>> for None.
MCPResponse(result, error, id) ==
    [result |-> result, error |-> error, id |-> id]

\* MCPResponse.is_error.
response_is_error(response) == response.error # <<>>

\* The error responses send_message builds itself.
HttpErrorResponse(status, text, id) ==
    MCPResponse(None, <<[code |-> status, message |-> "HTTP error", data |-> text]>>, id)

InternalErrorResponse(exc, id) ==
    MCPResponse(None, <<[code |-> 0 - 32603, message |-> "Internal error", data |-> exc]>>, id)

\* Exceptions of the aiohttp.ClientError family, and the others that the body
\* of send_message's try can raise.
McpClientErrors == {"ClientConnectorError", "ClientPayloadError", "ContentTypeError"}

McpOtherErrors == {"TimeoutError", "JSONDecodeError", "AttributeError", "RuntimeError"}

\* What the server and the transport do with one post:
\*   status 0: no response arrives, exc is raised by session.post;
\*   status 200: exc = None: the body is the JSON object `body`; otherwise
\*     response.json() (or from_dict, for a body that is no object) raises exc;
\*   another status: exc = None: response.text() is "body"; otherwise it raises.
Outcome(status, exc, body) == [status |-> status, exc |-> exc, body |-> body]

ServerBodies == {"result", "error", "result without id"}

SendOutcomes ==
    {Outcome(0, e, None) : e \in {"ClientConnectorError", "TimeoutError"}}
      \cup {Outcome(200, None, b) : b \in ServerBodies}
      \cup {Outcome(200, e, None) :
              e \in {"ContentTypeError", "JSONDecodeError", "AttributeError"}}
      \cup {Outcome(st, None, "body") : st \in {404, 500}}
      \cup {Outcome(500, "ClientPayloadError", None)}

\* MCPResponse.from_dict(data) for the server's JSON object.
from_dict_response(body, id) ==
    CASE body = "result" -> MCPResponse("result", <<>>, id)
      [] body = "error" ->
           MCPResponse(None, <<[code |-> 0 - 32601, message |-> "Method not found",
                                data |-> None]>>, id)
      [] OTHER -> MCPResponse("result", <<>>, NoId)

\* `if message.id is None`, with a variant that tests `not message.id`.
LacksIdFalsy(id) == id = NoId \/ id = IntId(0) \/ id = StrId("")

LacksId(id) == id = NoId

\* The two except clauses of send_message: aiohttp.ClientError and Exception;
\* and a variant with the first clause only.
CaughtBySendOnlyClientError(exc) == exc \in McpClientErrors

CaughtBySend(exc) == exc \in McpClientErrors \/ exc \in McpOtherErrors

\* send_message(message) when the server and transport behave as o: the
\* client's variables after the call.
Send(message, o) ==
    LET session == IF _session = None THEN "open" ELSE _session
        assign == LacksId(message.id)
        sent == IF assign
                THEN [message EXCEPT !.id = IntId(_request_id + 1)]
                ELSE message
        \* session.post on a closed session raises RuntimeError
        exc == IF session = "closed" THEN "RuntimeError" ELSE o.exc
        response ==
            IF exc # None THEN InternalErrorResponse(exc, sent.id)
            ELSE IF o.status # 200 THEN HttpErrorResponse(o.status, o.body, sent.id)
            ELSE from_dict_response(o.body, sent.id)
        returns == exc = None \/ CaughtBySend(exc)
    IN  /\ _session' = session
        /\ _request_id' = IF assign THEN _request_id + 1 ELSE _request_id
        /\ issued' = IF assign THEN Append(issued, _request_id + 1) ELSE issued
        /\ wire' = IF session = "open" THEN Append(wire, to_dict(sent)) ELSE wire
        /\ sends' = sends + 1
        /\ last' = <<[given |-> message, counter |-> _request_id,
                      after |-> _request_id', sent |-> sent,
                      session |-> session, outcome |-> o, exc |-> exc,
                      raised |-> ~returns,
                      response |-> IF returns THEN <<response>> ELSE <<>>]>>

\* The response of the last send_message call (the call returned).
LastResponse(l) == l[1].response[1]

\* MCPClient.__init__.
ClientInit ==
    /\ _request_id = 0
    /\ _session = None
    /\ wire = <<>>
    /\ issued = <<>>
    /\ sends = 0
    /\ last = <<>>

\* The ids callers give their messages.
MessageIds == {NoId, IntId(0), IntId(7), StrId("a")}

\* __aenter__.
ClientEnter ==
    /\ _session = None
    /\ _session' = "open"
    /\ UNCHANGED <<_request_id, wire, issued, sends, last>>
    /\ UNCHANGED notClient

\* __aexit__.
ClientExit ==
    /\ _session = "open"
    /\ _session' = "closed"
    /\ UNCHANGED <<_request_id, wire, issued, sends, last>>
    /\ UNCHANGED notClient

\* A direct call of _get_next_id().
GetNextId ==
    /\ _request_id < MaxRequests
    /\ _request_id' = _request_id + 1
    /\ issued' = Append(issued, _request_id')
    /\ UNCHANGED <<_session, wire, sends, last>>
    /\ UNCHANGED notClient

\* A call of send_message with any message, met by any outcome.
SendMessage ==
    /\ sends < MaxRequests
    /\ \E id \in MessageIds : \E o \in SendOutcomes :
         /\ LacksId(id) => _request_id < MaxRequests
         /\ Send(MCPMessage("ping", NoParams, id), o)
    /\ UNCHANGED notClient

ClientNext ==
    \/ ClientEnter
    \/ ClientExit
    \/ GetNextId
    \/ SendMessage

(***************************************************************************)
(* Texts: words and JSON                                                   *)
(***************************************************************************)

\* A text is a sequence of tokens. In a query the tokens are words, joined by
\* single blanks; the token " " is additional white space. In a JSON text the
\* tokens are:  {  }  m: the member "method": "tools/list"   p:{ : the key
\* "params" and the brace opening its value   5: a number.

\* Most words of a query.
MaxWords == 2

\* Most tokens of an LLM's reply.
MaxReply == 4

Vocabulary ==
    {"List", "tools", "resources", "prompts", "ping", "PING", "use", "foo", " "}

ReplyTokens == {"{", "}", "p:{", "m"}

Min(S) == CHOOSE x \in S : \A y \in S : x <= y

Max(S) == CHOOSE x \in S : \A y \in S : x >= y

\* str.lower(), per word.
LowerWord(t) ==
    CASE t = "List" -> "list"
      [] t = "PING" -> "ping"
      [] t = "EXIT" -> "exit"
      [] OTHER -> t

lower(text) == [i \in 1..Len(text) |-> LowerWord(text[i])]

\* str.strip().
RECURSIVE lstrip(_)
lstrip(text) ==
    IF text # <<>> /\ text[1] = " " THEN lstrip(Tail(text)) ELSE text

RECURSIVE rstrip(_)
rstrip(text) ==
    IF text # <<>> /\ text[Len(text)] = " "
    THEN rstrip(SubSeq(text, 1, Len(text) - 1))
    ELSE text

strip(text) == rstrip(lstrip(text))

\* The words of a text, which `\s+` separates.
words(text) == SelectSeq(text, LAMBDA t : t # " ")

\* Braces opened and not closed in text[1..i].
Depth(text, i) ==
    Cardinality({k \in 1..i : text[k] \in {"{", "p:{"}})
      - Cardinality({k \in 1..i : text[k] = "}"})

\* json.loads(text): <<value>>, or <<>> for JSONDecodeError. The value tells
\* whether it is an object and which members the object has.
JsonObject(text) ==
    /\ Len(text) >= 2
    /\ text[1] = "{"
    /\ text[Len(text)] = "}"
    /\ \A i \in 2..Len(text) : text[i] \in {"m", "p:{", "}"}
    /\ \A i \in 1..(Len(text) - 1) : Depth(text, i) > 0
    /\ Depth(text, Len(text)) = 0

json_loads(text) ==
    IF JsonObject(text)
    THEN LET members == {text[i] : i \in {k \in 2..Len(text) : Depth(text, k - 1) = 1}}
         IN  <<[object |-> TRUE, method |-> "m" \in members,
                params |-> "p:{" \in members]>>
    ELSE IF text = <<"5">>
    THEN <<[object |-> FALSE, method |-> FALSE, params |-> FALSE]>>
    ELSE <<>>

\* MCPMessage.from_dict(data) for an object.
from_dict(data) ==
    MCPMessage(IF data.method THEN "tools/list" ELSE "",
               IF data.params THEN Params(<<>>) ELSE NoParams,
               NoId)

\* shlex.split(text): the parts, or ValueError for a quotation left open.
RECURSIVE Shlex(_, _, _, _, _, _)
Shlex(text, i, quote, token, started, parts) ==
    IF i > Len(text)
    THEN [raised |-> quote # "",
          parts |-> IF started THEN Append(parts, token) ELSE parts]
    ELSE IF quote # ""
    THEN IF text[i] = quote
         THEN Shlex(text, i + 1, "", token, TRUE, parts)
         ELSE Shlex(text, i + 1, quote, Append(token, text[i]), TRUE, parts)
    ELSE IF text[i] = " "
    THEN Shlex(text, i + 1, "",  <<>>, FALSE,
               IF started THEN Append(parts, token) ELSE parts)
    ELSE IF text[i] \in {"\"", "'"}
    THEN Shlex(text, i + 1, text[i], token, TRUE, parts)
    ELSE Shlex(text, i + 1, "", Append(token, text[i]), TRUE, parts)

shlex_split(text) == Shlex(text, 1, "", <<>>, FALSE, <<>>)

\* ' '.join(parts)
RECURSIVE join(_)
join(parts) ==
    IF parts = <<>> THEN <<>>
    ELSE IF Len(parts) = 1 THEN parts[1]
    ELSE parts[1] \o <<" ">> \o join(Tail(parts))

(***************************************************************************)
(* Translator: mcp/translator.py                                           *)
(***************************************************************************)

\* The words of the vocabulary, lowered, that begin with a pattern word of
\* S, end with one, or contain one. No word of the vocabulary has a pattern
\* word strictly inside or at its end; the plurals begin with their singular.
LowerVocabulary == {LowerWord(t) : t \in Vocabulary}

ProperPrefixes(w) ==
    CASE w = "tools" -> {"tool", "to"}
      [] w = "prompts" -> {"prompt"}
      [] w = "resources" -> {"resource"}
      [] OTHER -> {}

Starting(S) ==
    {w \in LowerVocabulary : w \in S \/ ProperPrefixes(w) \cap S # {}}

Ending(S) == S

Containing(S) == Starting(S)

\* Tokens that `\w+` matches as a whole.
AnyWord == LowerVocabulary \ {" "}

\* re.search for a pattern that is a sequence of token sets: it matches at i
\* when the tokens from i on belong to the sets.
MatchesAt(ws, i, sets) ==
    /\ i + Len(sets) - 1 <= Len(ws)
    /\ \A k \in 1..Len(sets) : ws[i + k - 1] \in sets[k]

Matches(ws, sets) == \E i \in 1..Len(ws) : MatchesAt(ws, i, sets)

\* The last group of the leftmost match; alts are the ways the pattern's
\* optional part can go, in the order the regex engine tries them, each with
\* the position of its last group.
Search(ws, alts) ==
    LET hits == {i \in 1..Len(ws) :
                    \E a \in 1..Len(alts) : MatchesAt(ws, i, alts[a].sets)}
    IN  IF hits = {} THEN <<>>
        ELSE LET i == Min(hits)
                 a == Min({b \in 1..Len(alts) : MatchesAt(ws, i, alts[b].sets)})
             IN  <<ws[i + alts[a].group - 1]>>

\* r'(list|show|get|what).*(NOUNS)': a verb and, further on, a noun.
VerbThenNoun(ql, nouns) ==
    \E i, j \in 1..Len(ql) :
        /\ i < j
        /\ ql[i] \in Containing({"list", "show", "get", "what"})
        /\ ql[j] \in Containing(nouns)

\* PATTERNS['list_tools'].
list_tools(ql) ==
    \/ VerbThenNoun(ql, {"tool", "function", "capabilities"})
    \/ Matches(ql, <<Ending({"what"}), {"can"}, {"you"}, Starting({"do"})>>)
    \/ Matches(ql, <<Ending({"what"}), {"can"}, {"the"}, {"server"}, Starting({"do"})>>)
    \/ Matches(ql, <<Ending({"available"}), Starting({"tool", "function"})>>)

\* PATTERNS['call_tool']: <<tool_name>> of the first pattern that matches.
call_tool(ql) ==
    LET ws == words(ql)
        verbs == Ending({"call", "run", "execute", "use"})
        nouns == Starting({"tool", "function"})
        p1 == Search(ws, <<[sets |-> <<verbs, {"the"}, AnyWord, nouns>>, group |-> 3],
                           [sets |-> <<verbs, AnyWord, nouns>>, group |-> 2]>>)
        p2 == Search(ws, <<[sets |-> <<AnyWord, {"tool"}, Starting({"with"})>>,
                            group |-> 1]>>)
        p3 == Search(ws, <<[sets |-> <<Ending({"use"}), AnyWord, Starting({"to"})>>,
                            group |-> 2]>>)
    IN  IF p1 # <<>> THEN p1 ELSE IF p2 # <<>> THEN p2 ELSE p3

\* PATTERNS['list_resources'].
list_resources(ql) ==
    \/ VerbThenNoun(ql, {"resource", "file", "data"})
    \/ Matches(ql, <<Ending({"available"}), Starting({"resource", "file"})>>)

\* PATTERNS['read_resource']: <<resource_uri>>, the uri being a text.
read_resource(ql) ==
    LET ws == words(ql)
        n == Len(ws)
        nouns == {"resource", "file"}
        heads == <<<<Ending({"read", "get", "show", "fetch"}), {"the"}, nouns>>,
                   <<Ending({"read", "get", "show", "fetch"}), nouns>>>>
        \* pattern 1: verb, noun, then (.+): the rest of the text
        at1(i, a) == MatchesAt(ws, i, heads[a]) /\ i + Len(heads[a]) <= n
        hits1 == {i \in 1..n : at1(i, 1) \/ at1(i, 2)}
        \* pattern 2: verb, (.+), noun: the greedy group ends at the last noun
        at2(i, j) == /\ ws[i] \in Ending({"read", "get", "show"})
                     /\ j >= i + 2
                     /\ ws[j] \in Starting(nouns)
        hits2 == {i \in 1..n : \E j \in 1..n : at2(i, j)}
    IN  IF hits1 # {}
        THEN LET i == Min(hits1)
                 a == IF at1(i, 1) THEN 1 ELSE 2
             IN  <<SubSeq(ws, i + Len(heads[a]), n)>>
        ELSE IF hits2 # {}
        THEN LET i == Min(hits2)
                 j == Max({k \in 1..n : at2(i, k)})
             IN  <<SubSeq(ws, i + 1, j - 1)>>
        ELSE <<>>

\* PATTERNS['list_prompts'].
list_prompts(ql) ==
    \/ VerbThenNoun(ql, {"prompt", "template"})
    \/ Matches(ql, <<Ending({"available"}), Starting({"prompt", "template"})>>)

\* PATTERNS['get_prompt']: <<prompt_name>>.
get_prompt(ql) ==
    LET ws == words(ql)
        verbs == Ending({"get", "show", "use"})
        p1 == Search(ws, <<[sets |-> <<verbs, {"the"}, AnyWord, Starting({"prompt"})>>,
                            group |-> 3],
                           [sets |-> <<verbs, AnyWord, Starting({"prompt"})>>,
                            group |-> 2]>>)
        p2 == Search(ws, <<[sets |-> <<Ending({"prompt"}), {"named"}, AnyWord>>,
                            group |-> 3],
                           [sets |-> <<Ending({"prompt"}), AnyWord>>, group |-> 2]>>)
    IN  IF p1 # <<>> THEN p1 ELSE p2

\* PATTERNS['ping'].
ping(ql) ==
    \/ \E i \in 1..Len(ql) : ql[i] \in Containing({"ping"})
    \/ Matches(ql, <<Ending({"test"}), Starting({"connection"})>>)
    \/ Matches(ql, <<Ending({"check"}), Starting({"server"})>>)

\* extract_json_args(text): the key=value words of the text (<<>>: None).
\* The vocabulary has no braces.
extract_json_args(text) == SelectSeq(text, LAMBDA t : t \in {"k=v"})

\* parse_simple_query(query): <<MCPMessage>>, or <<>> for None. The operations
\* are tried in the order of the PATTERNS table.
parse_simple_query(query) ==
    LET query_lower == strip(lower(query))
        args == extract_json_args(query)
    IN  IF list_tools(query_lower)
        THEN <<MCPMessage("tools/list", NoParams, NoId)>>
        ELSE IF call_tool(query_lower) # <<>>
        THEN <<MCPMessage("tools/call",
                          Params(<<<<"name", call_tool(query_lower)>>,
                                   <<"arguments", args>>>>), NoId)>>
        ELSE IF list_resources(query_lower)
        THEN <<MCPMessage("resources/list", NoParams, NoId)>>
        ELSE IF read_resource(query_lower) # <<>>
        THEN <<MCPMessage("resources/read",
                          Params(<<<<"uri", strip(read_resource(query_lower)[1])>>>>),
                          NoId)>>
        ELSE IF list_prompts(query_lower)
        THEN <<MCPMessage("prompts/list", NoParams, NoId)>>
        ELSE IF get_prompt(query_lower) # <<>>
        THEN <<MCPMessage("prompts/get",
                          Params(<<<<"name", get_prompt(query_lower)>>>>
                                   \o (IF args # <<>> THEN <<<<"arguments", args>>>>
                                       ELSE <<>>)), NoId)>>
        ELSE IF ping(query_lower)
        THEN <<MCPMessage("ping", NoParams, NoId)>>
        ELSE <<>>

\* What llm_provider.query() does: raises, returns an error response, or
\* returns a reply.
LlmOutcome(kind, content) == [kind |-> kind, content |-> content]

LlmOutcomes ==
    {LlmOutcome("raises", <<>>), LlmOutcome("error", <<>>)}
      \cup {LlmOutcome("reply", c) : c \in SeqsUpTo(ReplyTokens, MaxReply)}

\* re.search(r'\{.*?\}', content, re.DOTALL): <<matched text>>, from the first
\* opening brace to the first closing brace after it.
json_match(content) ==
    LET opens == {i \in 1..Len(content) : content[i] \in {"{", "p:{"}}
        start == Min(opens)
        closes == {i \in 1..Len(content) : i > start /\ content[i] = "}"}
    IN  IF opens = {} \/ closes = {} THEN <<>>
        ELSE <<<<"{">> \o SubSeq(content, start + 1, Min(closes))>>

\* The broader search: from the first opening brace to the brace closing it.
brace_count_match(content) ==
    LET opens == {i \in 1..Len(content) : content[i] \in {"{", "p:{"}}
        start == Min(opens)
        rest == SubSeq(content, start, Len(content))
        zero == {i \in 1..Len(rest) : Depth(rest, i) = 0}
    IN  IF opens = {} \/ zero = {} THEN <<>>
        ELSE <<<<"{">> \o SubSeq(rest, 2, Min(zero))>>

\* The message translate_with_llm extracts from a reply: <<MCPMessage>>, or
\* <<>> for None.
extract_message(content) ==
    IF json_match(content) = <<>> THEN <<>>
    ELSE IF json_loads(json_match(content)[1]) # <<>>
    THEN <<from_dict(json_loads(json_match(content)[1])[1])>>
    ELSE IF brace_count_match(content) # <<>>
            /\ json_loads(brace_count_match(content)[1]) # <<>>
    THEN <<from_dict(json_loads(brace_count_match(content)[1])[1])>>
    ELSE <<>>

\* `except Exception: pass` in translate_with_llm.
CaughtByTranslate(kind) == TRUE

\* The fallback message, and a variant built from the normalised query.
CustomFallbackNormalised(query) ==
    MCPMessage("custom", Params(<<<<"query", strip(lower(query))>>>>), NoId)

CustomFallback(query) ==
    MCPMessage("custom", Params(<<<<"query", query>>>>), NoId)

\* A translator constructed with or without a provider, called with a query.
TranslateInit ==
    /\ tQuery \in SeqsUpTo(Vocabulary, MaxWords)
    /\ llm_provider \in BOOLEAN
    /\ tpc = "start"
    /\ tPattern = <<>>
    /\ llmQueries = <<>>
    /\ tMessage = <<>>
    /\ tResult = <<>>
    /\ tRaised = FALSE

TranslateIdle ==
    /\ tQuery = <<>>
    /\ llm_provider = FALSE
    /\ tpc = "idle"
    /\ tPattern = <<>>
    /\ llmQueries = <<>>
    /\ tMessage = <<>>
    /\ tResult = <<>>
    /\ tRaised = FALSE

\* translator.py 232-235: pattern matching first; a message is returned.
TParseSimple ==
    /\ tpc = "start"
    /\ tPattern' = parse_simple_query(tQuery)
    /\ tMessage' = tPattern'
    /\ IF tMessage' # <<>>
       THEN tResult' = tMessage' /\ tpc' = "returned"
       ELSE tResult' = tResult /\ tpc' = "no pattern"
    /\ UNCHANGED <<tQuery, llm_provider, llmQueries, tRaised>>
    /\ UNCHANGED notTranslate

\* translator.py 237-241 with translate_with_llm (151-221).
TTranslateWithLlm ==
    /\ tpc = "no pattern"
    /\ llm_provider
    /\ \E o \in LlmOutcomes :
         /\ llmQueries' = Append(llmQueries, o)
         /\ IF o.kind = "raises" /\ ~CaughtByTranslate(o.kind)
            THEN /\ tRaised' = TRUE
                 /\ tpc' = "raised"
                 /\ UNCHANGED <<tMessage, tResult>>
            ELSE /\ tMessage' = IF o.kind = "reply" THEN extract_message(o.content)
                                ELSE <<>>
                 /\ IF tMessage' # <<>>
                    THEN tResult' = tMessage' /\ tpc' = "returned"
                    ELSE tResult' = tResult /\ tpc' = "no message"
                 /\ UNCHANGED tRaised
    /\ UNCHANGED <<tQuery, llm_provider, tPattern>>
    /\ UNCHANGED notTranslate

\* translator.py 243-247: the custom method with the query as parameter.
TFallback ==
    /\ \/ tpc = "no pattern" /\ ~llm_provider
       \/ tpc = "no message"
    /\ tResult' = <<CustomFallback(tQuery)>>
    /\ tpc' = "returned"
    /\ UNCHANGED <<tQuery, llm_provider, tPattern, llmQueries, tMessage, tRaised>>
    /\ UNCHANGED notTranslate

TranslateNext ==
    \/ TParseSimple
    \/ TTranslateWithLlm
    \/ TFallback

\* translate(query) of a translator without provider, as one step.
translate_without_provider(query) ==
    IF parse_simple_query(query) # <<>> THEN parse_simple_query(query)[1]
    ELSE CustomFallback(query)

(***************************************************************************)
(* The `mcp` subcommand (cli.mcp.run_mcp) and the shell's `mcp` built-in   *)
(* (IntelligentShell._handle_mcp)                                          *)
(***************************************************************************)

\* MESSAGE arguments of the subcommand: simple commands and JSON texts.
SimpleMessages ==
    {<<>>, <<"ping">>, <<"PING">>, <<"list", "tools">>, <<"tools">>,
     <<"resources">>, <<"list", "prompts">>, <<"foo">>}

JsonTexts == {<<"{", "m", "}">>, <<"{", "m">>, <<"5">>}

CliArgs ==
    [raw : BOOLEAN,
     message : SimpleMessages \cup JsonTexts,
     method : {None, "tools/list"},
     params : {<<>>, <<"{", "}">>, <<"{">>}]

\* The built-in's parts[2:].
ShellArgs ==
    [raw : {FALSE},
     message : SeqsUpTo(Vocabulary \ {" "}, MaxWords),
     method : {None},
     params : {<<>>}]

\* The simple commands of the subcommand, compared after lower().
SimpleCommand(cmd) ==
    CASE cmd = <<"ping">> -> "ping"
      [] cmd \in {<<"list", "tools">>, <<"tools">>} -> "tools/list"
      [] cmd \in {<<"list", "resources">>, <<"resources">>} -> "resources/list"
      [] cmd \in {<<"list", "prompts">>, <<"prompts">>} -> "prompts/list"
      [] OTHER -> None

\* The commands of the built-in, compared as typed.
ShellCommand(mcp_command) ==
    CASE mcp_command = "ping" -> "ping"
      [] mcp_command = "tools" -> "tools/list"
      [] mcp_command = "resources" -> "resources/list"
      [] mcp_command = "prompts" -> "prompts/list"
      [] OTHER -> None

\* `if init_response.is_error: ... return`, and a variant that goes on.
GoesOnAfterInitError(response) == FALSE

AbortsAfterInit(response) == response_is_error(response)

CmdInit ==
    /\ mImpl \in {"cli", "shell"}
    /\ mArgs \in IF mImpl = "cli" THEN CliArgs ELSE ShellArgs
    /\ mpc = "start"
    /\ init_response = <<>>
    /\ mSource = None

CmdIdle ==
    /\ mImpl = "cli"
    /\ mArgs = [raw |-> FALSE, message |-> <<>>, method |-> None, params |-> <<>>]
    /\ mpc = "idle"
    /\ init_response = <<>>
    /\ mSource = None

\* intelligent_shell.py 643-650: too few parts; no client is made.
ShellUsage ==
    /\ mpc = "start"
    /\ mImpl = "shell"
    /\ mArgs.message = <<>>
    /\ mpc' = "done"
    /\ UNCHANGED <<mImpl, mArgs, init_response, mSource>>
    /\ UNCHANGED clientVars
    /\ UNCHANGED notCmd

\* async with MCPClient(...) as client.
McpEnter ==
    /\ mpc = "start"
    /\ mImpl = "shell" => mArgs.message # <<>>
    /\ _session' = "open"
    /\ mpc' = "entered"
    /\ UNCHANGED <<_request_id, wire, issued, sends, last>>
    /\ UNCHANGED <<mImpl, mArgs, init_response, mSource>>
    /\ UNCHANGED notCmd

\* client.initialize(...), and the return when its response is an error.
McpInitialize ==
    /\ mpc = "entered"
    /\ \E o \in SendOutcomes :
         Send(MCPMessage("initialize", Params(<<<<"protocolVersion", <<"0.1.0">>>>>>),
                         NoId), o)
    /\ init_response' = last'[1].response
    /\ mpc' = IF last'[1].raised \/ AbortsAfterInit(LastResponse(last'))
              THEN "exit" ELSE "connected"
    /\ UNCHANGED <<mImpl, mArgs, mSource>>
    /\ UNCHANGED notCmd

\* A resolved request is sent with send_message, any outcome; no request,
\* nothing is sent. The run then leaves the `async with`.
Resolve(source, request) ==
    /\ mSource' = source
    /\ IF request = <<>> THEN UNCHANGED clientVars
       ELSE \E o \in SendOutcomes : Send(request[1], o)
    /\ mpc' = "exit"
    /\ UNCHANGED <<mImpl, mArgs, init_response>>
    /\ UNCHANGED notCmd

\* cli.py 439-448: --raw with a message. Malformed JSON is reported; JSON that
\* is no object makes from_dict raise AttributeError, which ends the run.
CliRaw ==
    /\ mpc = "connected" /\ mImpl = "cli"
    /\ mArgs.raw /\ mArgs.message # <<>>
    /\ LET msg_data == json_loads(mArgs.message)
       IN  Resolve("raw", IF msg_data # <<>> /\ msg_data[1].object
                          THEN <<from_dict(msg_data[1])>> ELSE <<>>)

\* cli.py 449-460: --method with optional --params.
CliMethod ==
    /\ mpc = "connected" /\ mImpl = "cli"
    /\ ~(mArgs.raw /\ mArgs.message # <<>>)
    /\ mArgs.method # None
    /\ LET params_dict == json_loads(mArgs.params)
       IN  Resolve("method",
                   IF mArgs.params = <<>>
                   THEN <<MCPMessage(mArgs.method, NoParams, NoId)>>
                   ELSE IF params_dict = <<>> THEN <<>>
                   ELSE <<MCPMessage(mArgs.method,
                                     Params(<<<<"json", mArgs.params>>>>), NoId)>>)

\* cli.py 461-483: a simple command, or "Unknown command".
CliSimple ==
    /\ mpc = "connected" /\ mImpl = "cli"
    /\ ~(mArgs.raw /\ mArgs.message # <<>>)
    /\ mArgs.method = None
    /\ mArgs.message # <<>>
    /\ LET cmd == lower(mArgs.message)
       IN  Resolve("simple",
                   IF SimpleCommand(cmd) # None
                   THEN <<MCPMessage(SimpleCommand(cmd), NoParams, NoId)>>
                   ELSE <<>>)

\* cli.py 484-487: "No message specified".
CliNoMessage ==
    /\ mpc = "connected" /\ mImpl = "cli"
    /\ mArgs.method = None
    /\ mArgs.message = <<>>
    /\ Resolve("none", <<>>)

\* intelligent_shell.py 665-676: ping, tools, resources, prompts.
ShellFixed ==
    /\ mpc = "connected" /\ mImpl = "shell"
    /\ ShellCommand(mArgs.message[1]) # None
    /\ Resolve("simple", <<MCPMessage(ShellCommand(mArgs.message[1]), NoParams, NoId)>>)

\* intelligent_shell.py 677-684: any other command is translated by a
\* translator without provider, and the translation is sent.
ShellTranslate ==
    /\ mpc = "connected" /\ mImpl = "shell"
    /\ ShellCommand(mArgs.message[1]) = None
    /\ Resolve("translator", <<translate_without_provider(mArgs.message)>>)

\* __aexit__ at the end of the `async with`.
McpExit ==
    /\ mpc = "exit"
    /\ _session' = "closed"
    /\ mpc' = "done"
    /\ UNCHANGED <<_request_id, wire, issued, sends, last>>
    /\ UNCHANGED <<mImpl, mArgs, init_response, mSource>>
    /\ UNCHANGED notCmd

CmdNext ==
    \/ ShellUsage
    \/ McpEnter
    \/ McpInitialize
    \/ CliRaw
    \/ CliMethod
    \/ CliSimple
    \/ CliNoMessage
    \/ ShellFixed
    \/ ShellTranslate
    \/ McpExit

(***************************************************************************)
(* The interactive shell: CommandHistory (shell/intelligent_shell.py)      *)
(***************************************************************************)

\* A command is a text: a sequence of words, blanks " " and quote characters,
\* each next to the one before it with nothing in between. Prompt.ask() hands
\* the shell the typed line with its ends trimmed.

\* Stands for the 1000 commands save_history() keeps.
HistoryCap == 3

\* Most calls of add().
MaxAdds == 5

HistoryCommands ==
    {<<>>, <<"exit">>, <<"quit">>, <<"ls">>, <<"pwd">>, <<"exit", " ", "now">>}

AcceptsExit(command) == command # <<>> /\ command # <<"quit">>

\* add(): `if command and command not in ['exit', 'quit']`.
Accepts(command) == command # <<>> /\ command \notin {<<"exit">>, <<"quit">>}

\* s[-n:]
LastOf(s, n) == SubSeq(s, Len(s) - Min({n, Len(s)}) + 1, Len(s))

\* save_history(): the file is rewritten with '\n'.join(self.history[-1000:]).
save_history(h) == <<LastOf(h, HistoryCap)>>

\* load_history(): the stripped lines of the file, when there is one.
load_history(file, h) ==
    IF file = <<>> THEN h ELSE [i \in 1..Len(file[1]) |-> strip(file[1][i])]

HistoryIdle ==
    /\ history = <<>>
    /\ history_file = <<>>
    /\ addArgs = <<>>
    /\ lastAdd = <<>>

HistoryInit == HistoryIdle

\* CommandHistory.add(command)
HistoryAdd ==
    \E command \in HistoryCommands :
       /\ Len(addArgs) < MaxAdds
       /\ addArgs' = Append(addArgs, command)
       /\ IF Accepts(command)
          THEN /\ history' = Append(history, command)
               /\ history_file' = save_history(history')
          ELSE UNCHANGED <<history, history_file>>
       /\ lastAdd' = <<[command |-> command,
                        memory_before |-> history, file_before |-> history_file,
                        memory |-> history', file |-> history_file']>>
       /\ UNCHANGED notHistory

\* CommandHistory(): a later session of the shell starts from the file.
HistoryNew ==
    /\ history' = load_history(history_file, <<>>)
    /\ UNCHANGED <<history_file, addArgs, lastAdd>>
    /\ UNCHANGED notHistory

HistoryNext ==
    \/ HistoryAdd
    \/ HistoryNew

(***************************************************************************)
(* The interactive shell: IntelligentShell.run                             *)
(***************************************************************************)

\* Most lines typed at the shell's prompt.
MaxLines == 2

\* CommandSuggester.dangerous_commands, in the order of the dict.
dangerous_commands ==
    <<[cmd |-> "rm", pattern |-> "-rf"],
      [cmd |-> "chmod", pattern |-> "777"],
      [cmd |-> "chown", pattern |-> "-R"],
      [cmd |-> "dd", pattern |-> "if="],
      [cmd |-> "mkfs", pattern |-> "."],
      [cmd |-> "format", pattern |-> "c:"]>>

\* The names and patterns of dangerous_commands that a word contains.
PartsOf(word) ==
    CASE word \in {"rm", "firmware"} -> {"rm"}
      [] word \in {"-rf", "chmod", "777"} -> {word}
      [] OTHER -> {}

\* `s in command`, for an s without blanks.
Contains(command, s) == \E i \in 1..Len(command) : s \in PartsOf(command[i])

\* check_dangerous(command): <<the name in the warning>>, or <<>> for None.
check_dangerous(command) ==
    LET hits == {i \in 1..Len(dangerous_commands) :
                    /\ Contains(command, dangerous_commands[i].cmd)
                    /\ Contains(command, dangerous_commands[i].pattern)}
    IN  IF hits = {} THEN <<>> ELSE <<dangerous_commands[Min(hits)].cmd>>

\* What is typed at the shell's prompt, its ends trimmed by Prompt.ask().
TypedLines ==
    {<<>>, <<"EXIT">>, <<"q">>, <<"help">>, <<"?">>, <<"?", "tidy">>, <<"ls">>,
     <<"rm", " ", "x">>, <<"rm", " ", "-rf", " ", "x">>,
     <<"firmware", " ", "-rf">>, <<"chmod", " ", "777", " ", "x">>,
     <<"echo", " ", "\"", "x">>, <<"cd", " ", "[/x]">>}

\* What nl_converter.convert() makes of a request (<<>>: nothing).
NlCommands == {<<>>, <<"ls">>, <<"rm", " ", "-rf", " ", "x">>}

\* What is typed at a y/n question.
TypedAnswers == {"y", "n", "", "Y", "yes"}

\* Prompt.ask(..., choices, default): <<the value returned>>; <<>> when the
\* answer is not one of the choices and the question is asked again.
PromptAsk(typed, choices, default) ==
    IF typed = "" THEN <<default>>
    ELSE IF typed \in choices THEN <<typed>>
    ELSE <<>>

ContinueAnywayDefaultYes(typed) == PromptAsk(typed, {"y", "n"}, "y")

\* Prompt.ask("Continue anyway?", choices=["y", "n"], default="n")
ContinueAnyway(typed) == PromptAsk(typed, {"y", "n"}, "n")

\* Prompt.ask("Execute this command?", choices=["y", "n"], default="y")
ExecuteThis(typed) == PromptAsk(typed, {"y", "n"}, "y")

RunIdle ==
    /\ rpc = "prompt"
    /\ nl_converter = FALSE
    /\ rCommand = <<>>
    /\ executed = <<>>
    /\ lines = 0
    /\ lastLine = <<>>
    /\ no_history = FALSE
    /\ lastEvent = <<>>

\* cli.shell: IntelligentShell(...), then shell.history = None for
\* --no-history, then shell.run().
RunInit ==
    /\ rpc = "prompt"
    /\ nl_converter \in BOOLEAN
    /\ rCommand = <<>>
    /\ executed = <<>>
    /\ lines = 0
    /\ lastLine = <<>>
    /\ no_history \in BOOLEAN
    /\ lastEvent = <<>>

\* self.history.add(command)
Add(command) ==
    /\ addArgs' = Append(addArgs, command)
    /\ IF Accepts(command)
       THEN /\ history' = Append(history, command)
            /\ history_file' = save_history(history')
       ELSE UNCHANGED <<history, history_file>>
    /\ lastAdd' = <<[command |-> command,
                     memory_before |-> history, file_before |-> history_file,
                     memory |-> history', file |-> history_file']>>

\* What became of a command: self.execute_command(command) was called for it
\* (ran) or was not.
Settle(command, via, warning, typed, ran) ==
    /\ executed' = IF ran
                   THEN Append(executed, [command |-> command, via |-> via,
                                          typed |-> typed])
                   ELSE executed
    /\ lastLine' = <<[command |-> command, via |-> via, warning |-> warning,
                      typed |-> typed, ran |-> ran, next |-> rpc']>>

\* console.print(text) renders text as markup and raises MarkupError for a
\* closing tag that closes no open tag; "[/x]" is such a tag.
MarkupRaises(text) == \E i \in 1..Len(text) : text[i] = "[/x]"

\* The except clauses of run(): KeyboardInterrupt prints and goes on with the
\* loop, EOFError prints the farewell and breaks, and any other Exception e is
\* printed by console.print(f"[red]Error: {e}[/red]") before the loop goes on.
\* The message of a MarkupError quotes the tag that closed nothing, so
\* printing it raises MarkupError again, now inside the except clause, and
\* run() ends with that exception ("raised").
AfterException(exc) ==
    CASE exc = "EOFError" -> "left"
      [] exc = "MarkupError" -> "raised"
      [] OTHER -> "prompt"

\* What self.execute_command(command) raises: ValueError of shlex.split() in
\* expand_alias() for a quotation left open; otherwise nothing (<<>>), or
\* KeyboardInterrupt when Ctrl-C is typed while the command runs.
ExecuteRaises(command) ==
    IF shlex_split(command).raised THEN {<<"ValueError">>}
    ELSE {<<>>, <<"KeyboardInterrupt">>}

\* One pass through the loop: read at `at`, `raised` at step `stage`.
Event(read, stage, raised) ==
    lastEvent' = <<[at |-> rpc, read |-> read, stage |-> stage,
                    raised |-> raised, next |-> rpc']>>

\* The text of the user's in what execute_command(command) returns and run()
\* prints: `cd <directory>` returns the path it resolved, as stdout when the
\* directory was entered and within stderr when there is no such directory.
Shown(command) ==
    LET parts == shlex_split(command).parts
    IN  IF Len(command) > 2 /\ command[1] = "cd" /\ command[2] = " "
        THEN parts[2]
        ELSE <<>>

\* console.print(stdout, end='') and console.print(f"[red]{stderr}[/red]", end='')
DisplayRaises(command) ==
    IF MarkupRaises(Shown(command)) THEN <<"MarkupError">> ELSE <<>>

\* self.execute_command(command) and the display of what it returned: what
\* was raised, at which step, and where run() goes next.
Executed(command, read, raised) ==
    LET all == IF raised # <<>> THEN raised ELSE DisplayRaises(command)
    IN  /\ rpc' = IF all = <<>> THEN "prompt" ELSE AfterException(all[1])
        /\ Event(read, IF raised = <<>> /\ all # <<>> THEN "display" ELSE "execute",
                 all)

\* One line read at the shell's prompt, up to the next question.
RunLine ==
    \E command \in TypedLines :
       /\ rpc = "prompt"
       /\ lines < MaxLines
       /\ lines' = lines + 1
       /\ UNCHANGED <<nl_converter, no_history>>
       /\ IF command = <<>> \/ lower(command) = <<"help">>
          THEN /\ UNCHANGED <<rpc, rCommand, executed, lastLine, histVars>>
               /\ Event(command, "read", <<>>)
          ELSE IF lower(command) \in {<<"exit">>, <<"quit">>, <<"q">>}
          THEN /\ rpc' = "left"
               /\ UNCHANGED <<rCommand, executed, lastLine, histVars>>
               /\ Event(command, "read", <<>>)
          ELSE IF command[1] = "?" /\ nl_converter /\ strip(Tail(command)) # <<>>
          THEN \E converted \in NlCommands :
                  /\ rCommand' = converted
                  /\ rpc' = IF converted # <<>> THEN "execute this" ELSE "prompt"
                  /\ UNCHANGED <<executed, lastLine, histVars>>
                  /\ Event(command, "convert", <<>>)
          ELSE IF no_history
          THEN /\ rpc' = AfterException("AttributeError")
               /\ UNCHANGED <<rCommand, executed, lastLine, histVars>>
               /\ Event(command, "history", <<"AttributeError">>)
          ELSE /\ Add(command)
               /\ rCommand' = command
               /\ IF check_dangerous(command) # <<>>
                  THEN /\ rpc' = "continue anyway"
                       /\ UNCHANGED <<executed, lastLine>>
                       /\ Event(command, "check", <<>>)
                  ELSE \E raised \in ExecuteRaises(command) :
                          /\ Executed(command, command, raised)
                          /\ Settle(command, "typed", <<>>, <<>>, TRUE)
       /\ UNCHANGED notRun

\* The answer to "Continue anyway?".
RunContinueAnyway ==
    \E typed \in TypedAnswers :
       /\ rpc = "continue anyway"
       /\ IF ContinueAnyway(typed) = <<>>
          THEN UNCHANGED <<rpc, executed, lastLine, lastEvent>>
          ELSE IF ContinueAnyway(typed) = <<"y">>
          THEN \E raised \in ExecuteRaises(rCommand) :
                  /\ Executed(rCommand, <<typed>>, raised)
                  /\ Settle(rCommand, "typed", check_dangerous(rCommand),
                            <<typed>>, TRUE)
          ELSE /\ rpc' = "prompt"
               /\ Settle(rCommand, "typed", check_dangerous(rCommand), <<typed>>,
                         FALSE)
               /\ Event(<<typed>>, "answer", <<>>)
       /\ UNCHANGED <<rCommand, lines, nl_converter, no_history, histVars>>
       /\ UNCHANGED notRun

\* The answer to "Execute this command?" of _process_nl_command.
RunExecuteThis ==
    \E typed \in TypedAnswers :
       /\ rpc = "execute this"
       /\ IF ExecuteThis(typed) = <<>>
          THEN UNCHANGED <<rpc, executed, lastLine, lastEvent, histVars>>
          ELSE IF ExecuteThis(typed) # <<"y">>
          THEN /\ rpc' = "prompt"
               /\ Settle(rCommand, "nl", check_dangerous(rCommand), <<typed>>,
                         FALSE)
               /\ Event(<<typed>>, "answer", <<>>)
               /\ UNCHANGED histVars
          ELSE IF no_history
          THEN /\ rpc' = AfterException("AttributeError")
               /\ Settle(rCommand, "nl", check_dangerous(rCommand), <<typed>>,
                         FALSE)
               /\ Event(<<typed>>, "history", <<"AttributeError">>)
               /\ UNCHANGED histVars
          ELSE \E raised \in ExecuteRaises(rCommand) :
                  /\ Add(rCommand)
                  /\ Executed(rCommand, <<typed>>, raised)
                  /\ Settle(rCommand, "nl", check_dangerous(rCommand), <<typed>>,
                            TRUE)
       /\ UNCHANGED <<rCommand, lines, nl_converter, no_history>>
       /\ UNCHANGED notRun

\* Ctrl-C or Ctrl-D at a prompt or a question: run() goes back to the prompt
\* after KeyboardInterrupt and leaves the loop after EOFError.
RunInterrupted ==
    \E e \in {"KeyboardInterrupt", "EOFError"} :
       /\ rpc \in {"prompt", "continue anyway", "execute this"}
       /\ lines < MaxLines \/ rpc # "prompt"
       /\ rpc' = AfterException(e)
       /\ Event(<<>>, "read", <<e>>)
       /\ IF rpc = "prompt"
          THEN /\ lines' = lines + 1
               /\ UNCHANGED <<executed, lastLine>>
          ELSE /\ Settle(rCommand,
                         IF rpc = "execute this" THEN "nl" ELSE "typed",
                         check_dangerous(rCommand), <<e>>, FALSE)
               /\ UNCHANGED lines
       /\ UNCHANGED <<rCommand, nl_converter, no_history, histVars>>
       /\ UNCHANGED notRun

RunNext ==
    \/ RunLine
    \/ RunContinueAnyway
    \/ RunExecuteThis
    \/ RunInterrupted

(***************************************************************************)
(* The interactive shell: IntelligentShell.execute_command                 *)
(***************************************************************************)

\* Most calls of execute_command().
MaxCommands == 2

\* The directories and the file of the file system; os.chdir() into a
\* directory that the user may not search raises PermissionError.
Directories ==
    {<<>>, <<"home">>, <<"home", "u">>, <<"tmp">>, <<"tmp", "locked">>}

Files == {<<"tmp", "f">>}

Unsearchable == {<<"tmp", "locked">>}

\* Path.home()
Home == <<"home", "u">>

\* Path(word).expanduser(): whether it is absolute, and its parts.
PathOf(arg) ==
    IF Len(arg) # 1 THEN [absolute |-> FALSE, parts |-> arg]
    ELSE CASE arg[1] = "/" -> [absolute |-> TRUE, parts |-> <<>>]
           [] arg[1] = "/tmp" -> [absolute |-> TRUE, parts |-> <<"tmp">>]
           [] arg[1] = "/tmp/locked" ->
                [absolute |-> TRUE, parts |-> <<"tmp", "locked">>]
           [] arg[1] = "/tmp/f" -> [absolute |-> TRUE, parts |-> <<"tmp", "f">>]
           [] arg[1] = "/nox" -> [absolute |-> TRUE, parts |-> <<"nox">>]
           [] arg[1] = "~" -> [absolute |-> TRUE, parts |-> Home]
           [] arg[1] = "../.." -> [absolute |-> FALSE, parts |-> <<"..", "..">>]
           [] OTHER -> [absolute |-> FALSE, parts |-> arg]

\* Path.resolve(), in a file system without symbolic links.
RECURSIVE resolve(_, _)
resolve(done, parts) ==
    IF parts = <<>> THEN done
    ELSE IF parts[1] = ".."
    THEN resolve(IF done = <<>> THEN <<>> ELSE SubSeq(done, 1, Len(done) - 1),
                 Tail(parts))
    ELSE resolve(Append(done, parts[1]), Tail(parts))

\* _load_aliases(), without a file of the user's aliases.
aliases ==
    [part \in {<<"ll">>, <<"la">>, <<"l">>, <<"..">>, <<"...">>, <<"g">>, <<"d">>,
               <<"p">>, <<"cls">>} |->
        CASE part = <<"ll">> -> <<"ls", " ", "-la">>
          [] part = <<"la">> -> <<"ls", " ", "-a">>
          [] part = <<"l">> -> <<"ls", " ", "-l">>
          [] part = <<"..">> -> <<"cd", " ", "..">>
          [] part = <<"...">> -> <<"cd", " ", "../..">>
          [] part = <<"g">> -> <<"git">>
          [] part = <<"d">> -> <<"docker">>
          [] part = <<"p">> -> <<"python">>
          [] OTHER -> <<"clear">>]

\* expand_alias(command), when shlex.split() does not raise.
expand_alias(command) ==
    LET parts == shlex_split(command).parts
    IN  IF parts # <<>> /\ parts[1] \in DOMAIN aliases
        THEN join(<<aliases[parts[1]]>> \o Tail(parts))
        ELSE command

\* word.startswith(keyword), for the words of commands.
WordStartsWith(word, keyword) ==
    \/ word = keyword
    \/ word = "cdrom" /\ keyword = "cd"
    \/ word = "helpful" /\ keyword = "help"

\* command.startswith(keyword)
StartsWith(command, keyword) ==
    command # <<>> /\ WordStartsWith(command[1], keyword)

\* command == word or command.startswith(word + ' ')
IsBuiltin(command, word) ==
    \/ command = <<word>>
    \/ Len(command) >= 2 /\ command[1] = word /\ command[2] = " "

\* The keywords that keep a command from being taken for an LLM query.
reserved ==
    {"cd", "pwd", "export", "alias", "history", "clear", "cls", "help", "exit",
     "quit", "env"}

\* The branch of execute_command() that an alias-expanded command takes.
Dispatch(command) ==
    IF Len(command) >= 2 /\ command[1] = "cd" /\ command[2] = " " THEN "cd"
    ELSE IF command = <<"pwd">> THEN "pwd"
    ELSE IF Len(command) >= 2 /\ command[1] = "export" /\ command[2] = " "
    THEN "export"
    ELSE IF command = <<"alias">> THEN "alias"
    ELSE IF IsBuiltin(command, "llm") THEN "llm"
    ELSE IF IsBuiltin(command, "mcp") THEN "mcp"
    ELSE IF IsBuiltin(command, "collate") THEN "collate"
    ELSE IF IsBuiltin(command, "generate") THEN "generate"
    ELSE IF IsBuiltin(command, "env") THEN "env"
    ELSE IF ~\E keyword \in reserved : StartsWith(command, keyword)
    THEN "implicit llm"
    ELSE "external"

\* _handle_cd(command) in directory `tracked` of a process in `process`.
_handle_cd(command, tracked, process) ==
    LET parts == shlex_split(command).parts
        new_dir == IF Len(parts) = 1
                   THEN [absolute |-> TRUE, parts |-> Home]
                   ELSE PathOf(parts[2])
        target == resolve(<<>>, IF new_dir.absolute THEN new_dir.parts
                                ELSE tracked \o new_dir.parts)
    IN  IF target \in Directories
        THEN IF target \in Unsearchable
             THEN [code |-> 1, err |-> "Permission denied",
                   current_dir |-> target, cwd |-> process]
             ELSE [code |-> 0, err |-> "",
                   current_dir |-> target, cwd |-> target]
        ELSE [code |-> 1, err |-> "No such directory",
              current_dir |-> tracked, cwd |-> process]

\* The words that make _enhance_query_with_mcp_context() add the MCP context.
mcp_keywords == {"database"}

\* _handle_llm(command): the exit code, stderr, and the query a provider was
\* asked, if one was.
_handle_llm(command, default, mcp_context) ==
    LET split == shlex_split(command)
        parts == split.parts
        named == parts[2] \in {<<p>> : p \in ValidProviderSet}
        provider_name == IF named THEN parts[2] ELSE default
        query == IF named THEN parts[3] ELSE parts[2]
        options == SubSeq(parts, IF named THEN 4 ELSE 3, Len(parts))
    IN  IF split.raised
        THEN [code |-> 1, err |-> "LLM error", queried |-> <<>>]
        ELSE IF Len(parts) < 2 \/ (named /\ Len(parts) < 3)
        THEN [code |-> 1, err |-> "Usage", queried |-> <<>>]
        ELSE IF provider_name \notin {<<p>> : p \in ValidProviderSet}
        THEN [code |-> 1, err |-> "Unknown provider", queried |-> <<>>]
        ELSE [code |-> 0, err |-> "",
              queried |-> <<[provider |-> provider_name,
                             query |-> query,
                             context |-> /\ mcp_context
                                         /\ \E i \in 1..Len(query) :
                                               LowerWord(query[i]) \in mcp_keywords,
                             stream |-> \E i \in 1..Len(options) :
                                           options[i] = <<"--stream">>]>>]

\* The commands given to execute_command().
ExecCommands ==
    {<<"cd">>, <<"cd", " ", "/tmp">>, <<"cd", " ", "/tmp/locked">>,
     <<"cd", " ", "/tmp/f">>, <<"cd", " ", "/nox">>, <<"cd", " ", "..">>,
     <<"cd", " ", "~">>, <<"cd", " ", "locked">>, <<"..">>, <<"...">>,
     <<"pwd">>, <<"clear">>, <<"cdrom">>, <<"helpful", " ", "hints">>,
     <<"llm">>, <<"llm", " ", "claude">>,
     <<"llm", " ", "\"", "tell", " ", "joke", "\"">>,
     <<"llm", " ", "\"", "test", "\"", " ", "--stream">>,
     <<"llm", " ", "openai", " ", "\"", "test", "\"">>,
     <<"llm", " ", "invalid", " ", "\"", "test", "\"">>,
     <<"tell", " ", "joke">>, <<"tell", " ", " ", "joke">>, <<"ls">>,
     <<"list", " ", "database">>, <<"claude">>,
     <<"say", " ", "\"", "hi", "\"">>, <<"what", "'", "s", " ", "up">>,
     <<"ll", " ", "\"", "my", " ", "dir", "\"">>, <<"g", " ", " ", "status">>}

\* DEFAULT_LLM_PROVIDER in os.environ, or 'claude' when it is not set.
DefaultProviders == {<<"claude">>, <<"openai">>, <<"mistral">>}

ExecIdle ==
    /\ current_dir = <<>>
    /\ cwd = <<>>
    /\ default_provider = <<"claude">>
    /\ calls = 0
    /\ xLast = <<>>

\* IntelligentShell(): current_dir = Path.cwd().
ExecInit ==
    /\ current_dir \in Directories \ Unsearchable
    /\ cwd = current_dir
    /\ default_provider \in DefaultProviders
    /\ calls = 0
    /\ xLast = <<>>

\* What a call of execute_command() was given, did and returned.
Returned(command, handler, code, err, queried) ==
    /\ calls < MaxCommands
    /\ calls' = calls + 1
    /\ xLast' = <<[command |-> command, handler |-> handler, code |-> code,
                   err |-> err, queried |-> queried,
                   dir_before |-> current_dir, cwd_before |-> cwd,
                   dir_after |-> current_dir', cwd_after |-> cwd']>>
    /\ UNCHANGED default_provider
    /\ UNCHANGED notExec

\* expand_alias() raises ValueError, which execute_command() lets through.
ExecRaises ==
    \E command \in ExecCommands :
       /\ shlex_split(command).raised
       /\ UNCHANGED <<current_dir, cwd>>
       /\ Returned(command, "raises", 1, "ValueError", <<>>)

\* `cd <directory>`
ExecCd ==
    \E command \in ExecCommands :
       /\ ~shlex_split(command).raised
       /\ Dispatch(expand_alias(command)) = "cd"
       /\ LET r == _handle_cd(expand_alias(command), current_dir, cwd)
          IN  /\ current_dir' = r.current_dir
              /\ cwd' = r.cwd
              /\ Returned(command, "cd", r.code, r.err, <<>>)

\* `pwd`
ExecPwd ==
    \E command \in ExecCommands :
       /\ ~shlex_split(command).raised
       /\ Dispatch(expand_alias(command)) = "pwd"
       /\ UNCHANGED <<current_dir, cwd>>
       /\ Returned(command, "pwd", 0, "", <<>>)

\* `llm ...`, and a command taken for an LLM query.
ExecLlm ==
    \E command \in ExecCommands, mcp_context \in BOOLEAN :
       /\ ~shlex_split(command).raised
       /\ Dispatch(expand_alias(command)) \in {"llm", "implicit llm"}
       /\ LET expanded == expand_alias(command)
              r == IF Dispatch(expanded) = "llm"
                   THEN _handle_llm(expanded, default_provider, mcp_context)
                   ELSE _handle_llm(<<"llm", " ", "\"">> \o expanded \o <<"\"">>,
                                    default_provider, mcp_context)
          IN  /\ UNCHANGED <<current_dir, cwd>>
              /\ Returned(command, Dispatch(expanded), r.code, r.err, r.queried)

\* A command run by subprocess.Popen(command, shell=True, cwd=current_dir);
\* the child's own `cd` ends with the child.
ExecExternal ==
    \E command \in ExecCommands, returncode \in {0, 1} :
       /\ ~shlex_split(command).raised
       /\ Dispatch(expand_alias(command)) = "external"
       /\ UNCHANGED <<current_dir, cwd>>
       /\ IF current_dir \in Unsearchable
          THEN Returned(command, "external", 1, "Permission denied", <<>>)
          ELSE IF expand_alias(command) = <<"cd">>
          THEN Returned(command, "external", 0, "", <<>>)
          ELSE Returned(command, "external", returncode, "", <<>>)

ExecNext ==
    \/ ExecRaises
    \/ ExecCd
    \/ ExecPwd
    \/ ExecLlm
    \/ ExecExternal

(***************************************************************************)
(* The environment manager: utils/env_manager.py                           *)
(***************************************************************************)

\* Most lines of the .env file.
MaxEnvLines == 2

\* Most calls of load_env() and reload_env(), and most edits of the file.
MaxLoads == 2

\* Most calls of set_var().
MaxSets == 1

\* The lines of a .env file: texts of names, values, blanks, `=`, `#` and
\* quote characters.
EnvLines ==
    {<<>>, <<"#", "A", "=", "9">>, <<"junk">>, <<"A", "=", "1">>,
     <<"A", "=", " ", "2">>, <<" ", "B", " ", "=", "\"", "2", "\"">>,
     <<"MCP_X_SERVER", "=", "'", "u", "'">>, <<"=", "1">>}

\* The .env file: <<its rows>>, or <<>> when there is none.
EnvFiles == {<<>>} \cup {<<rows>> : rows \in SeqsUpTo(EnvLines, MaxEnvLines)}

\* A dict is a function from its keys.
EmptyDict == [key \in {} |-> <<>>]

\* d[key] = value
Put(d, key, value) ==
    [k \in DOMAIN d \cup {key} |-> IF k = key THEN value ELSE d[k]]

\* The place of the first `=` of a line, 0 when it has none.
FirstEquals(line) ==
    IF \E i \in 1..Len(line) : line[i] = "="
    THEN Min({i \in 1..Len(line) : line[i] = "="})
    ELSE 0

\* Remove quotes if present: value[1:-1] when both ends are the same quote.
unquote(value) ==
    IF /\ value # <<>>
       /\ value[1] \in {"\"", "'"}
       /\ value[Len(value)] = value[1]
    THEN SubSeq(value, 2, Len(value) - 1)
    ELSE value

\* What load_env() makes of one line.
parse_line(raw) ==
    LET line == strip(raw)
        at == FirstEquals(line)
    IN  IF line = <<>> \/ line[1] = "#"
        THEN [kind |-> "skipped", key |-> <<>>, value |-> <<>>]
        ELSE IF at = 0
        THEN [kind |-> "invalid", key |-> <<>>, value |-> <<>>]
        ELSE [kind |-> "pair",
              key |-> strip(SubSeq(line, 1, at - 1)),
              value |-> unquote(strip(SubSeq(line, at + 1, Len(line))))]

\* The loop of load_env() from line i on. os.environ[key] = value raises
\* OSError for the empty key; load_env() catches it and returns False with
\* the earlier rows loaded.
RECURSIVE LoadLines(_, _, _, _)
LoadLines(rows, i, env, loaded) ==
    IF i > Len(rows) THEN [success |-> TRUE, environ |-> env, loaded |-> loaded]
    ELSE LET p == parse_line(rows[i])
         IN  IF p.kind # "pair" THEN LoadLines(rows, i + 1, env, loaded)
             ELSE IF p.key = <<>>
             THEN [success |-> FALSE, environ |-> env, loaded |-> loaded]
             ELSE LoadLines(rows, i + 1, Put(env, p.key, p.value),
                            Put(loaded, p.key, p.value))

\* load_env()
load_env(file, env, loaded) ==
    IF file = <<>> THEN [success |-> FALSE, environ |-> env, loaded |-> loaded]
    ELSE LoadLines(file[1], 1, env, loaded)

\* get_mcp_servers(): the MCP_..._SERVER keys of the loaded record that have a
\* value.
get_mcp_servers(loaded) ==
    {key \in DOMAIN loaded : key = <<"MCP_X_SERVER">> /\ loaded[key] # <<>>}

\* What reload_env() prints about a successful load.
Report(old_vars, new_vars) ==
    LET added == DOMAIN new_vars \ DOMAIN old_vars
        removed == DOMAIN old_vars \ DOMAIN new_vars
        modified == {key \in DOMAIN new_vars \cap DOMAIN old_vars :
                        new_vars[key] # old_vars[key]}
    IN  [added |-> added, removed |-> removed, modified |-> modified,
         no_changes |-> added = {} /\ removed = {} /\ modified = {}]

EnvIdle ==
    /\ env_file = <<>>
    /\ environ = EmptyDict
    /\ _loaded_vars = EmptyDict
    /\ loaded_file = <<>>
    /\ loads = 0
    /\ setCalls = 0
    /\ eLast = <<>>

\* EnvManager(), beside some .env file or none.
EnvInit ==
    /\ env_file \in EnvFiles
    /\ environ = EmptyDict
    /\ _loaded_vars = EmptyDict
    /\ loaded_file = <<>>
    /\ loads = 0
    /\ setCalls = 0
    /\ eLast = <<>>

\* What a call of load_env() or reload_env() found, did and reported.
Loaded(op, r, report) ==
    /\ loads < MaxLoads
    /\ loads' = loads + 1
    /\ environ' = r.environ
    /\ _loaded_vars' = r.loaded
    /\ loaded_file' = IF r.success THEN <<env_file>> ELSE loaded_file
    /\ eLast' = <<[op |-> op, success |-> r.success, file |-> env_file,
                   previous |-> loaded_file, report |-> report,
                   loaded |-> r.loaded, environ |-> r.environ]>>
    /\ UNCHANGED <<env_file, setCalls>>

\* load_env(), as at the start of the shell.
LoadEnv ==
    /\ Loaded("load_env", load_env(env_file, environ, _loaded_vars), <<>>)
    /\ UNCHANGED notEnv

\* reload_env(), as `env reload` calls it.
ReloadEnv ==
    LET r == load_env(env_file, environ, _loaded_vars)
    IN  /\ Loaded("reload_env", r,
                  IF r.success THEN <<Report(_loaded_vars, r.loaded)>> ELSE <<>>)
        /\ UNCHANGED notEnv

\* set_var(key, value)
SetVar ==
    \E key \in {<<"A">>, <<"C">>} :
       /\ setCalls < MaxSets
       /\ setCalls' = setCalls + 1
       /\ environ' = Put(environ, key, <<"7">>)
       /\ UNCHANGED <<env_file, _loaded_vars, loaded_file, loads, eLast>>
       /\ UNCHANGED notEnv

\* The .env file is rewritten or removed after it was loaded.
EditEnvFile ==
    \E file \in EnvFiles :
       /\ loaded_file # <<>>
       /\ loaded_file[1] = env_file
       /\ loads < MaxLoads
       /\ env_file' = file
       /\ UNCHANGED <<environ, _loaded_vars, loaded_file, loads, setCalls, eLast>>
       /\ UNCHANGED notEnv

EnvNext ==
    \/ LoadEnv
    \/ ReloadEnv
    \/ SetVar
    \/ EditEnvFile

(***************************************************************************)
(* The settings of a query: EnvManager.get_llm_config, the providers'      *)
(* constructors and query(), the shell's `llm` and the CLI's `query`       *)
(***************************************************************************)

\* Python's None among texts.
Unset == <<>>

\* The variables of os.environ that may be set when a query is made.
ConfigKeys ==
    {<<"OPENAI_API_KEY">>, <<"OLLAMA_URL">>, <<"CLAUDE_MODEL">>,
     <<"OPENAI_MODEL">>, <<"DEFAULT_TEMPERATURE">>, <<"DEFAULT_MAX_TOKENS">>}

\* The value a variable has when it is set.
EnvValue(key) == <<"$", key[1]>>

ConfigEnvirons ==
    {[key \in keys |-> EnvValue(key)] : keys \in SUBSET ConfigKeys}

\* get_var(key, default): os.environ.get(key, default)
get_var(env, key, default) == IF key \in DOMAIN env THEN env[key] ELSE default

\* get_llm_config(provider)
get_llm_config(env, provider) ==
    CASE provider = "claude" ->
           [setting \in {"api_key", "model", "temperature", "max_tokens"} |->
              CASE setting = "api_key" -> get_var(env, <<"ANTHROPIC_API_KEY">>, Unset)
                [] setting = "model" ->
                     get_var(env, <<"CLAUDE_MODEL">>, <<"claude-3-5-sonnet-20241022">>)
                [] setting = "temperature" ->
                     get_var(env, <<"DEFAULT_TEMPERATURE">>, <<"0.7">>)
                [] OTHER -> get_var(env, <<"DEFAULT_MAX_TOKENS">>, <<"4096">>)]
      [] provider = "openai" ->
           [setting \in {"api_key", "base_url", "model", "temperature",
                         "max_tokens"} |->
              CASE setting = "api_key" -> get_var(env, <<"OPENAI_API_KEY">>, Unset)
                [] setting = "base_url" ->
                     get_var(env, <<"OPENAI_BASE_URL">>, <<"https://api.openai.com/v1">>)
                [] setting = "model" -> get_var(env, <<"OPENAI_MODEL">>, <<"gpt-4o-mini">>)
                [] setting = "temperature" ->
                     get_var(env, <<"DEFAULT_TEMPERATURE">>, <<"0.7">>)
                [] OTHER -> get_var(env, <<"DEFAULT_MAX_TOKENS">>, <<"4096">>)]
      [] provider = "gemini" ->
           [setting \in {"api_key", "model", "temperature", "max_tokens"} |->
              CASE setting = "api_key" -> get_var(env, <<"GOOGLE_API_KEY">>, Unset)
                [] setting = "model" ->
                     get_var(env, <<"GEMINI_MODEL">>, <<"gemini-1.5-flash">>)
                [] setting = "temperature" ->
                     get_var(env, <<"DEFAULT_TEMPERATURE">>, <<"0.7">>)
                [] OTHER -> get_var(env, <<"DEFAULT_MAX_TOKENS">>, <<"4096">>)]
      [] provider = "ollama" ->
           [setting \in {"base_url", "model", "temperature", "max_tokens"} |->
              CASE setting = "base_url" ->
                     get_var(env, <<"OLLAMA_URL">>, <<"http://localhost:11434">>)
                [] setting = "model" -> get_var(env, <<"OLLAMA_MODEL">>, <<"llama3.2">>)
                [] setting = "temperature" ->
                     get_var(env, <<"DEFAULT_TEMPERATURE">>, <<"0.7">>)
                [] OTHER -> get_var(env, <<"DEFAULT_MAX_TOKENS">>, <<"4096">>)]
      [] OTHER -> [setting \in {} |-> Unset]

\* config.get(setting)
ConfigGet(config, setting) ==
    IF setting \in DOMAIN config THEN config[setting] ELSE Unset

\* a or b
Or(a, b) == IF a # Unset THEN a ELSE b

\* The default_model property of a provider.
default_model(env, provider) ==
    CASE provider = "claude" ->
           get_var(env, <<"CLAUDE_MODEL">>, <<"claude-3-5-sonnet-20241022">>)
      [] provider = "openai" -> <<"gpt-3.5-turbo">>
      [] provider = "gemini" -> get_var(env, <<"GEMINI_MODEL">>, <<"gemini-1.5-flash">>)
      [] OTHER -> get_var(env, <<"OLLAMA_MODEL">>, <<"llama3.2">>)

\* What a provider made with these constructor arguments sends for a call of
\* query() or stream_query() with these arguments (Unset: not sent).
SettingsInEffect(env, provider, api_key, base_url, model, temperature, max_tokens) ==
    [setting \in {"api_key", "base_url", "model", "temperature", "max_tokens"} |->
       CASE setting = "api_key" ->
              CASE provider = "claude" ->
                     Or(api_key, get_var(env, <<"ANTHROPIC_API_KEY">>, Unset))
                [] provider = "openai" ->
                     Or(api_key, get_var(env, <<"OPENAI_API_KEY">>, Unset))
                [] provider = "gemini" ->
                     Or(api_key, get_var(env, <<"GOOGLE_API_KEY">>, Unset))
                [] OTHER -> Unset
         [] setting = "base_url" ->
              CASE provider = "openai" ->
                     Or(base_url, get_var(env, <<"OPENAI_BASE_URL">>, Unset))
                [] provider = "ollama" ->
                     Or(base_url, get_var(env, <<"OLLAMA_BASE_URL">>,
                                          <<"http://localhost:11434">>))
                [] provider = "gemini" ->
                     Or(base_url, get_var(env, <<"GEMINI_BASE_URL">>, Unset))
                [] OTHER -> Unset
         [] setting = "model" -> Or(model, default_model(env, provider))
         [] setting = "temperature" -> temperature
         [] OTHER -> IF provider = "claude" THEN Or(max_tokens, <<"4096">>)
                     ELSE max_tokens]

\* The options of the CLI's `query` that were given.
GivenOptions == [{"api_key", "base_url", "model", "temperature", "max_tokens"} ->
                    {Unset, <<"given">>}]

ConfigIdle == cLast = <<>>

\* What a query was given and what it used. The settings of a query do not
\* depend on the queries before it: a behaviour has one query.
Queried(site, provider, given, used) ==
    /\ cLast = <<>>
    /\ cLast' = <<[site |-> site, provider |-> provider, given |-> given,
                   config |-> get_llm_config(environ, provider),
                   used |-> used]>>

\* The shell's `llm`: the provider is made from get_llm_config() and query()
\* is called with the query alone.
ShellLlmSettings ==
    \E provider \in ValidProviderSet :
       LET config == get_llm_config(environ, provider)
       IN  /\ Queried("shell", provider,
                      [setting \in {"api_key", "base_url", "model",
                                    "temperature", "max_tokens"} |-> Unset],
                      SettingsInEffect(environ, provider,
                         IF provider = "ollama" THEN Unset
                         ELSE ConfigGet(config, "api_key"),
                         IF provider \in {"openai", "ollama"}
                         THEN ConfigGet(config, "base_url") ELSE Unset,
                         Unset, <<"0.7">>, Unset))
           /\ UNCHANGED envVars
           /\ UNCHANGED notConfig

\* The CLI's `query`: the provider is made from --api-key, --openai-url and
\* --ollama-url, and query() is called with --model, --temperature (0.7 when
\* not given) and --max-tokens.
CliQuerySettings ==
    \E provider \in ValidProviderSet, given \in GivenOptions :
       /\ Queried("cli", provider, given,
                  SettingsInEffect(environ, provider,
                     IF provider = "ollama" THEN Unset ELSE given["api_key"],
                     CASE provider = "openai" -> given["base_url"]
                       [] provider = "ollama" ->
                            Or(given["base_url"], <<"http://localhost:11434">>)
                       [] OTHER -> Unset,
                     given["model"],
                     Or(given["temperature"], <<"0.7">>),
                     given["max_tokens"]))
       /\ UNCHANGED envVars
       /\ UNCHANGED notConfig

ConfigNext ==
    \/ ShellLlmSettings
    \/ CliQuerySettings

(***************************************************************************)
(* The shell's `export` and `env` built-ins, and the readers of the        *)
(* environment: IntelligentShell._handle_export, _handle_env,              *)
(* execute_command (subprocess), _handle_llm                               *)
(***************************************************************************)

\* Most built-ins and commands of one session.
MaxEnvCommands == 3

\* A value of eight characters or fewer, and one of nine.
ShortValue == <<"a", "b">>

LongValue == <<"s", "k", "-", "1", "2", "3", "4", "5", "6">>

\* The variables written and read.
SessionKeys == {<<"OPENAI_API_KEY">>, <<"MCP_X_SERVER">>}

\* The .env file beside the shell.
SessionFiles ==
    {<<>>,
     <<<<<<"OPENAI_API_KEY", "=">> \o LongValue>>>>,
     <<<<<<"MCP_X_SERVER", "=", "u">>>>>>}

\* The words of sensitive_keys that a variable's or a setting's name holds,
\* in lower case.
SensitiveParts(name) ==
    CASE name \in {"OPENAI_API_KEY", "api_key"} -> {"key"}
      [] OTHER -> {}

\* show_env: any(sensitive in key.lower() for sensitive in sensitive_keys)
sensitive_keys == {"key", "token", "secret", "password", "auth"}

IsSensitive(name) == SensitiveParts(name) \cap sensitive_keys # {}

\* _handle_env, llm: 'key' in key.lower() or 'token' in key.lower()
IsSensitiveSetting(name) == SensitiveParts(name) \cap {"key", "token"} # {}

\* value[:4] + "..." + value[-4:] if len(value) > 8 else "***"
mask(value) ==
    IF Len(value) > 8
    THEN SubSeq(value, 1, 4) \o <<"...">> \o SubSeq(value, Len(value) - 3, Len(value))
    ELSE <<"***">>

\* One value put on the screen for a variable.
Display(key, value, text) == [key |-> key, value |-> value, text |-> text]

\* show_env(): a row for every loaded variable.
show_env(loaded) ==
    {Display(key, loaded[key],
             IF IsSensitive(key[1]) THEN mask(loaded[key]) ELSE loaded[key]) :
        key \in DOMAIN loaded}

\* The key of the environment a setting of get_llm_config('openai') is read
\* from.
SettingKey(setting) ==
    CASE setting = "api_key" -> <<"OPENAI_API_KEY">>
      [] setting = "base_url" -> <<"OPENAI_BASE_URL">>
      [] setting = "model" -> <<"OPENAI_MODEL">>
      [] setting = "temperature" -> <<"DEFAULT_TEMPERATURE">>
      [] OTHER -> <<"DEFAULT_MAX_TOKENS">>

\* `env llm openai`: a row for every setting that has a value.
show_llm_config(config) ==
    {Display(SettingKey(setting), config[setting],
             IF IsSensitiveSetting(setting) THEN mask(config[setting])
             ELSE config[setting]) :
        setting \in {s \in DOMAIN config : config[s] # Unset}}

\* env = os.environ.copy(); env.update(self.env_vars)
subprocess_env(env, overlay) ==
    [key \in DOMAIN env \cup DOMAIN overlay |->
        IF key \in DOMAIN overlay THEN overlay[key] ELSE env[key]]

\* The enrichment that appends nothing.
enhanced_query_Nothing(query) == query

\* _enhance_query_with_mcp_context: the query, a blank line, the context of
\* the MCP servers and the request to consider them.
enhanced_query(query) == query \o <<"\n\n", "AVAILABLE MCP TOOLS", "\n\n", "Please consider">>

\* The `llm` commands typed in a session.
SessionQueries ==
    {<<"llm", " ", "\"", "list", " ", "database", "\"">>,
     <<"llm", " ", "\"", "tell", " ", "joke", "\"">>,
     <<"llm", " ", "\"", "list", " ", "database", "\"", " ", "--stream">>}

SessionIdle ==
    /\ env_vars = EmptyDict
    /\ written = EmptyDict
    /\ commands = 0
    /\ vLast = <<>>

\* IntelligentShell(): env_vars = {} and load_env_on_startup().
SessionInit ==
    /\ env_file \in SessionFiles
    /\ environ = load_env(env_file, EmptyDict, EmptyDict).environ
    /\ _loaded_vars = load_env(env_file, EmptyDict, EmptyDict).loaded
    /\ loaded_file = <<>>
    /\ loads = 0
    /\ setCalls = 0
    /\ eLast = <<>>
    /\ env_vars = EmptyDict
    /\ written = environ
    /\ commands = 0
    /\ vLast = <<>>

\* What a built-in or command of the session wrote, showed, handed over,
\* sent and logged.
Did(op, key, shown, handed, sent, logged) ==
    /\ commands < MaxEnvCommands
    /\ commands' = commands + 1
    /\ vLast' = <<[op |-> op, key |-> key, shown |-> shown, handed |-> handed,
                   sent |-> sent, logged |-> logged,
                   environ |-> environ, loaded |-> _loaded_vars]>>
    /\ UNCHANGED <<env_file, loaded_file, loads, setCalls, eLast>>

\* `export KEY=VALUE`: _handle_export sets self.env_vars and os.environ and
\* returns "Exported KEY=VALUE", which run() prints.
SessionExport ==
    \E key \in SessionKeys, value \in {ShortValue, LongValue} :
       /\ env_vars' = Put(env_vars, key, value)
       /\ environ' = Put(environ, key, value)
       /\ written' = Put(written, key, value)
       /\ Did("export", key, {Display(key, value, value)}, <<>>, <<>>, <<>>)
       /\ UNCHANGED _loaded_vars
       /\ UNCHANGED notSession

\* `env set KEY VALUE`: set_var sets os.environ and prints "Set KEY = VALUE".
SessionSet ==
    \E key \in SessionKeys, value \in {ShortValue, LongValue} :
       /\ environ' = Put(environ, key, value)
       /\ written' = Put(written, key, value)
       /\ Did("env set", key, {Display(key, value, value)}, <<>>, <<>>, <<>>)
       /\ UNCHANGED <<env_vars, _loaded_vars>>
       /\ UNCHANGED notSession

\* `env default openai`: set_var('DEFAULT_LLM_PROVIDER', provider)
SessionDefault ==
    LET key == <<"DEFAULT_LLM_PROVIDER">>
    IN  /\ environ' = Put(environ, key, <<"openai">>)
        /\ written' = Put(written, key, <<"openai">>)
        /\ Did("env default", key, {Display(key, <<"openai">>, <<"openai">>)},
               <<>>, <<>>, <<>>)
        /\ UNCHANGED <<env_vars, _loaded_vars>>
        /\ UNCHANGED notSession

\* `env reload`: reload_env() writes every pair of the file to os.environ and
\* prints the names of what was added, removed and modified.
SessionReload ==
    LET r == load_env(env_file, environ, _loaded_vars)
        pairs == load_env(env_file, EmptyDict, EmptyDict).loaded
    IN  /\ environ' = r.environ
        /\ _loaded_vars' = r.loaded
        /\ written' = [key \in DOMAIN written \cup DOMAIN pairs |->
                          IF key \in DOMAIN pairs THEN pairs[key] ELSE written[key]]
        /\ Did("env reload", <<>>, {}, <<>>, <<>>, <<>>)
        /\ UNCHANGED env_vars
        /\ UNCHANGED notSession

\* `env get KEY`: prints "KEY = value" for get_var(KEY), or that the variable
\* was not found.
SessionGet ==
    \E key \in SessionKeys :
       /\ Did("env get", key,
              IF get_var(environ, key, Unset) # Unset
              THEN {Display(key, environ[key], environ[key])}
              ELSE {},
              <<>>, <<>>, <<>>)
       /\ UNCHANGED <<environ, _loaded_vars, env_vars, written>>
       /\ UNCHANGED notSession

\* `env show`
SessionShow ==
    /\ Did("env show", <<>>, show_env(_loaded_vars), <<>>, <<>>, <<>>)
    /\ UNCHANGED <<environ, _loaded_vars, env_vars, written>>
    /\ UNCHANGED notSession

\* `env llm openai`: the settings of the provider, read from the environment.
SessionLlmConfig ==
    /\ Did("env llm", <<>>, show_llm_config(get_llm_config(environ, "openai")),
           <<>>, <<>>, <<>>)
    /\ UNCHANGED <<environ, _loaded_vars, env_vars, written>>
    /\ UNCHANGED notSession

\* A command run by subprocess.Popen(..., env=env).
SessionSubprocess ==
    /\ Did("subprocess", <<>>, {}, <<subprocess_env(environ, env_vars)>>, <<>>, <<>>)
    /\ UNCHANGED <<environ, _loaded_vars, env_vars, written>>
    /\ UNCHANGED notSession

\* `llm "query" [--stream]`: the provider is asked the enhanced query and
\* log_interaction is given the query; nothing is logged when the provider
\* raises.
SessionLlm ==
    \E command \in SessionQueries, outcome \in {"success", "error", "raises"} :
       LET default == get_var(environ, <<"DEFAULT_LLM_PROVIDER">>, <<"claude">>)
           r == _handle_llm(command, default, get_mcp_servers(_loaded_vars) # {})
           q == r.queried[1]
       IN  /\ r.queried # <<>>
           /\ Did("llm", q.query, {}, <<>>,
                  <<[text |-> IF q.context THEN enhanced_query(q.query) ELSE q.query,
                     provider |-> q.provider, stream |-> q.stream]>>,
                  IF outcome = "raises" THEN <<>>
                  ELSE <<[query |-> q.query, provider |-> q.provider,
                          error |-> outcome = "error" /\ ~q.stream]>>)
           /\ UNCHANGED <<environ, _loaded_vars, env_vars, written>>
           /\ UNCHANGED notSession

SessionNext ==
    \/ SessionExport
    \/ SessionSet
    \/ SessionDefault
    \/ SessionReload
    \/ SessionGet
    \/ SessionShow
    \/ SessionLlmConfig
    \/ SessionSubprocess
    \/ SessionLlm

(***************************************************************************)
(* File search: search/file_search.py (MacOSFileSearcher)                  *)
(***************************************************************************)

\* Most calls of search_files().
MaxSearches == 1

\* A glob of tokens against a name of tokens; "*" stands for any tokens.
RECURSIVE Glob(_, _)
Glob(glob, name) ==
    IF glob = <<>> THEN name = <<>>
    ELSE IF glob[1] = "*"
    THEN Glob(Tail(glob), name) \/ (name # <<>> /\ Glob(glob, Tail(name)))
    ELSE name # <<>> /\ glob[1] = name[1] /\ Glob(Tail(glob), Tail(name))

\* The files under the directory searched: name, content type, kind, size in
\* bytes, days since the last change, and text.
SampleFiles ==
    {[name |-> <<"a", ".", "py">>, type |-> "public.python-script", kind |-> "f",
      size |-> 2097152, days |-> 0, text |-> <<"x">>],
     [name |-> <<"b", ".", "src">>, type |-> "public.source-code", kind |-> "f",
      size |-> 10, days |-> 40, text |-> <<>>],
     [name |-> <<"n", ".", "txt">>, type |-> "public.text", kind |-> "f",
      size |-> 10, days |-> 3, text |-> <<"x">>],
     [name |-> <<"a">>, type |-> "public.folder", kind |-> "d",
      size |-> 0, days |-> 0, text |-> <<>>]}

\* One comparison of a Spotlight query.
Clause(attribute, value) == [attribute |-> attribute, value |-> value]

\* _build_type_query(file_type): the list of queries for the type.
_build_type_query(file_type) ==
    CASE file_type = "image" -> <<Clause("kMDItemContentType", <<"public.image">>)>>
      [] file_type = "video" -> <<Clause("kMDItemContentType", <<"public.movie">>)>>
      [] file_type = "audio" -> <<Clause("kMDItemContentType", <<"public.audio">>)>>
      [] file_type = "text" -> <<Clause("kMDItemContentType", <<"public.text">>)>>
      [] file_type = "pdf" -> <<Clause("kMDItemContentType", <<"com.adobe.pdf">>)>>
      [] file_type = "code" ->
           <<Clause("kMDItemContentType", <<"public.source-code">>),
             Clause("kMDItemDisplayName", <<"*", ".", "py">>),
             Clause("kMDItemDisplayName", <<"*", ".", "js">>),
             Clause("kMDItemDisplayName", <<"*", ".", "ts">>),
             Clause("kMDItemDisplayName", <<"*", ".", "java">>),
             Clause("kMDItemDisplayName", <<"*", ".", "c">>),
             Clause("kMDItemDisplayName", <<"*", ".", "cpp">>)>>
      [] OTHER -> <<Clause("kMDItemDisplayName", <<"*", ".", file_type>>)>>

\* _search_with_spotlight: the mdfind command. Its query is the list of the
\* parenthesised parts that ' && ' joins (none: the query '*').
_search_with_spotlight(name_pattern, dir, content_pattern, file_type, size_filter, date_filter) ==
    [tool |-> "mdfind",
     onlyin |-> IF dir # "." THEN <<dir>> ELSE <<>>,
     query |->
        (IF name_pattern # "*"
         THEN <<Clause("kMDItemDisplayName", <<"*", name_pattern, "*">>)>>
         ELSE <<>>)
        \o (IF content_pattern # <<>>
            THEN <<Clause("kMDItemTextContent", <<"*", content_pattern[1], "*">>)>>
            ELSE <<>>)
        \o (IF file_type # <<>> THEN _build_type_query(file_type[1]) ELSE <<>>)]

\* One test of a find command.
Test(flag, arg) == [flag |-> flag, arg |-> arg]

\* _parse_size_for_find(size_filter): +Nc or -Nc, or the filter as it is.
_parse_size_for_find(size_filter) ==
    CASE size_filter = <<">", "1", "MB">> -> <<"+", "1048576", "c">>
      [] size_filter = <<"<", "500", "KB">> -> <<"-", "512000", "c">>
      [] OTHER -> size_filter

\* _parse_date_for_find(date_filter)
_parse_date_for_find(date_filter) ==
    CASE lower(date_filter) = <<"today">> -> <<Test("-mtime", <<"-", "1">>)>>
      [] lower(date_filter) = <<"yesterday">> -> <<Test("-mtime", <<"1">>)>>
      [] lower(date_filter) = <<"last", " ", "week">> -> <<Test("-mtime", <<"-", "7">>)>>
      [] lower(date_filter) = <<"last", " ", "month">> -> <<Test("-mtime", <<"-", "30">>)>>
      [] date_filter = <<"3">> -> <<Test("-mtime", <<"-", "3">>)>>
      [] OTHER -> <<>>

\* _search_with_find: the find command.
_search_with_find(name_pattern, dir, content_pattern, file_type, size_filter, date_filter, ignore_case) ==
    [tool |-> "find",
     root |-> dir,
     tests |->
        (IF name_pattern # "*"
         THEN <<Test(IF ignore_case THEN "-iname" ELSE "-name", <<name_pattern>>)>>
         ELSE <<>>)
        \o (IF file_type = <<>> THEN <<>>
            ELSE IF file_type[1] = "directory" THEN <<Test("-type", <<"d">>)>>
            ELSE IF file_type[1] = "file" THEN <<Test("-type", <<"f">>)>>
            ELSE <<Test("-name", <<"*", ".", file_type[1]>>)>>)
        \o (IF size_filter # <<>>
            THEN <<Test("-size", _parse_size_for_find(size_filter))>>
            ELSE <<>>)
        \o (IF date_filter # <<>> THEN _parse_date_for_find(date_filter) ELSE <<>>)
        \o <<Test("! -path", <<"*/.git/*">>), Test("! -path", <<"*/__pycache__/*">>),
             Test("! -path", <<"*/node_modules/*">>),
             Test("! -path", <<"*/.DS_Store/*">>)>>]

\* mdfind: a file is found when every part of the query holds of it.
ClauseHolds(file, part) ==
    CASE part.attribute = "kMDItemDisplayName" -> Glob(part.value, file.name)
      [] part.attribute = "kMDItemTextContent" -> Glob(part.value, file.text)
      [] OTHER -> <<file.type>> = part.value

\* find: a file is found when every test holds of it.
TestHolds(file, test) ==
    CASE test.flag = "-iname" -> Glob(lower(test.arg), lower(file.name))
      [] test.flag = "-name" -> Glob(test.arg, file.name)
      [] test.flag = "-type" -> <<file.kind>> = test.arg
      [] test.flag = "-size" ->
           CASE test.arg = <<"+", "1048576", "c">> -> file.size > 1048576
             [] test.arg = <<"-", "512000", "c">> -> file.size < 512000
             [] OTHER -> FALSE
      [] test.flag = "-mtime" ->
           CASE test.arg = <<"-", "1">> -> file.days < 1
             [] test.arg = <<"1">> -> file.days = 1
             [] test.arg = <<"-", "3">> -> file.days < 3
             [] test.arg = <<"-", "7">> -> file.days < 7
             [] OTHER -> file.days < 30
      [] OTHER -> TRUE

\* _execute_search_command(cmd, ...): the files of the results.
_execute_search_command(cmd) ==
    IF cmd.tool = "mdfind"
    THEN {file \in SampleFiles :
             \A i \in 1..Len(cmd.query) : ClauseHolds(file, cmd.query[i])}
    ELSE {file \in SampleFiles :
             \A i \in 1..Len(cmd.tests) : TestHolds(file, cmd.tests[i])}

\* The arguments of search_files(); <<>> stands for None.
NamePatterns == {"*", "a"}

ContentPatterns == {<<>>, <<"x">>}

FileTypes == {<<>>, <<"code">>, <<"text">>, <<"py">>, <<"directory">>}

SizeFilters == {<<>>, <<">", "1", "MB">>, <<"big">>}

DateFilters == {<<>>, <<"today">>, <<"Last", " ", "week">>, <<"soon">>}

SearchIdle ==
    /\ spotlight_available = FALSE
    /\ searches = 0
    /\ fLast = <<>>

\* MacOSFileSearcher(): _check_spotlight()
SearchInit ==
    /\ spotlight_available \in BOOLEAN
    /\ searches = 0
    /\ fLast = <<>>

\* What a call of search_files() was given, ran and found.
Searched(name_pattern, dir, content_pattern, file_type, size_filter, date_filter, cmd) ==
    /\ searches < MaxSearches
    /\ searches' = searches + 1
    /\ fLast' = <<[pattern |-> name_pattern, path |-> dir,
                   content_pattern |-> content_pattern, file_type |-> file_type,
                   size_filter |-> size_filter, date_filter |-> date_filter,
                   cmd |-> cmd, results |-> _execute_search_command(cmd)]>>
    /\ UNCHANGED spotlight_available

\* search_files(...) on the fast path.
SearchWithSpotlight ==
    \E name_pattern \in NamePatterns, dir \in {".", "/tmp"},
       content_pattern \in ContentPatterns, file_type \in FileTypes,
       size_filter \in SizeFilters, date_filter \in DateFilters :
       /\ spotlight_available
       /\ Searched(name_pattern, dir, content_pattern, file_type, size_filter,
                   date_filter,
                   _search_with_spotlight(name_pattern, dir, content_pattern,
                                          file_type, size_filter, date_filter))
       /\ UNCHANGED notSearch

\* search_files(...) on the fallback path: --no-spotlight, or no mdfind.
SearchWithFind ==
    \E name_pattern \in NamePatterns, dir \in {".", "/tmp"},
       content_pattern \in ContentPatterns, file_type \in FileTypes,
       size_filter \in SizeFilters, date_filter \in DateFilters,
       ignore_case \in BOOLEAN, use_spotlight \in BOOLEAN :
       /\ ~(use_spotlight /\ spotlight_available)
       /\ Searched(name_pattern, dir, content_pattern, file_type, size_filter,
                   date_filter,
                   _search_with_find(name_pattern, dir, content_pattern,
                                     file_type, size_filter, date_filter,
                                     ignore_case))
       /\ UNCHANGED notSearch

SearchNext ==
    \/ SearchWithSpotlight
    \/ SearchWithFind

(***************************************************************************)
(* Specifications                                                          *)
(***************************************************************************)

McpIdle == ClientInit /\ CmdIdle /\ TranslateIdle

LateIdle == SessionIdle /\ SearchIdle

EarlyIdle == HistoryIdle /\ RunIdle /\ ExecIdle /\ EnvIdle /\ ConfigIdle

ShellIdle == EarlyIdle /\ LateIdle

InitCollate == CollateInit /\ QueryIdle /\ StreamIdle /\ LogInit /\ McpIdle /\ ShellIdle

SpecCollate == InitCollate /\ [][CollateNext]_vars

InitQuery == QueryInit /\ CollateIdle /\ StreamIdle /\ LogInit /\ McpIdle /\ ShellIdle

SpecQuery == InitQuery /\ [][QueryNext]_vars

InitStream == StreamInit /\ CollateIdle /\ QueryIdle /\ LogInit /\ McpIdle /\ ShellIdle

SpecStream == InitStream /\ [][StreamNext]_vars

InitLog == LogInit /\ CollateIdle /\ QueryIdle /\ StreamIdle /\ McpIdle /\ ShellIdle

SpecLog == InitLog /\ [][LogNext]_vars

LlmIdle == CollateIdle /\ QueryIdle /\ StreamIdle /\ LogInit

InitClient == ClientInit /\ CmdIdle /\ TranslateIdle /\ LlmIdle /\ ShellIdle

SpecClient == InitClient /\ [][ClientNext]_vars

InitCmd == CmdInit /\ ClientInit /\ TranslateIdle /\ LlmIdle /\ ShellIdle

SpecCmd == InitCmd /\ [][CmdNext]_vars

InitTranslate == TranslateInit /\ ClientInit /\ CmdIdle /\ LlmIdle /\ ShellIdle

SpecTranslate == InitTranslate /\ [][TranslateNext]_vars

InitHistory ==
    HistoryInit /\ RunIdle /\ ExecIdle /\ EnvIdle /\ ConfigIdle
       /\ LlmIdle /\ McpIdle /\ LateIdle

SpecHistory == InitHistory /\ [][HistoryNext]_vars

InitRun ==
    RunInit /\ HistoryIdle /\ ExecIdle /\ EnvIdle /\ ConfigIdle
       /\ LlmIdle /\ McpIdle /\ LateIdle

SpecRun == InitRun /\ [][RunNext]_vars

InitExec ==
    ExecInit /\ HistoryIdle /\ RunIdle /\ EnvIdle /\ ConfigIdle
       /\ LlmIdle /\ McpIdle /\ LateIdle

SpecExec == InitExec /\ [][ExecNext]_vars

InitEnv ==
    EnvInit /\ HistoryIdle /\ RunIdle /\ ExecIdle /\ ConfigIdle
       /\ LlmIdle /\ McpIdle /\ LateIdle

SpecEnv == InitEnv /\ [][EnvNext]_vars

\* A process whose environment has some of the settings' variables.
ConfigInit ==
    /\ environ \in ConfigEnvirons
    /\ env_file = <<>>
    /\ _loaded_vars = EmptyDict
    /\ loaded_file = <<>>
    /\ loads = 0
    /\ setCalls = 0
    /\ eLast = <<>>
    /\ cLast = <<>>

InitConfig ==
    ConfigInit /\ HistoryIdle /\ RunIdle /\ ExecIdle /\ LlmIdle /\ McpIdle
       /\ LateIdle

SpecConfig == InitConfig /\ [][ConfigNext]_vars

InitSession ==
    SessionInit /\ HistoryIdle /\ RunIdle /\ ExecIdle /\ ConfigIdle
       /\ SearchIdle /\ LlmIdle /\ McpIdle

SpecSession == InitSession /\ [][SessionNext]_vars

InitSearch == SearchInit /\ SessionIdle /\ EarlyIdle /\ LlmIdle /\ McpIdle

SpecSearch == InitSearch /\ [][SearchNext]_vars

(***************************************************************************)
(* Claims about collate                                                    *)
(***************************************************************************)

\* The providers the user declared (the CLI's default when none is given).
Declared == IF impl = "cli" THEN CliProviders(providers) ELSE providers

\* Position of the first occurrence of name in seq (0 when absent).
FirstIndex(seq, name) ==
    IF \E i \in 1..Len(seq) : seq[i] = name
    THEN CHOOSE i \in 1..Len(seq) :
            seq[i] = name /\ \A j \in 1..(i - 1) : seq[j] # name
    ELSE 0

\* Row i belongs to task i and shows an error exactly when that provider's
\* query raised or returned an error response.
RowsMatchTasks ==
    /\ Len(table) = Len(tasks)
    /\ \A i \in 1..Len(tasks) :
         /\ table[i].provider = tasks[i].name
         /\ table[i].error = (tasks[i].outcome \in {"raises", "error_response"})

\* The transcript holds one multi-interaction entry with the rows' outcomes.
OneMultiEntry ==
    /\ Len(transcript) = 1
    /\ transcript[1].multi
    /\ Len(transcript[1].sections) = Len(table)
    /\ \A i \in 1..Len(table) :
         /\ transcript[1].sections[i].provider = table[i].provider
         /\ transcript[1].sections[i].body.terse = table[i].error

\* C1 as stated: in both implementations the finished collate has one row per
\* declared provider, in declared order, whatever each query did, and one
\* multi-interaction transcript entry written after every task resolved.
C1_RowPerDeclaredProvider ==
    /\ cpc = "done" =>
         /\ Len(table) = Len(Declared)
         /\ \A i \in 1..Len(Declared) : table[i].provider = Declared[i]
         /\ RowsMatchTasks
         /\ OneMultiEntry
    /\ transcript # <<>> => \A i \in 1..Len(tasks) : tasks[i].state = "done"

\* C1 amended: the shell has one row per declared position (two rows for a
\* repeated name); the CLI has one row per distinct declared provider, ordered
\* by first declaration; rows carry each provider's own outcome (a raise is an
\* error row and drops no other row); the single multi-interaction entry is
\* written only after every task has resolved.
C1_RowPerDistinctProvider ==
    /\ cpc = "done" =>
         /\ impl = "shell" =>
              /\ Len(table) = Len(Declared)
              /\ \A i \in 1..Len(Declared) : table[i].provider = Declared[i]
         /\ impl = "cli" =>
              /\ \A i \in 1..Len(Declared) :
                   Cardinality({r \in 1..Len(table) :
                                  table[r].provider = Declared[i]}) = 1
              /\ \A r \in 1..Len(table) : FirstIndex(Declared, table[r].provider) > 0
              /\ \A r, q \in 1..Len(table) :
                   r < q => FirstIndex(Declared, table[r].provider)
                              < FirstIndex(Declared, table[q].provider)
         /\ RowsMatchTasks
         /\ OneMultiEntry
    /\ transcript # <<>> => \A i \in 1..Len(tasks) : tasks[i].state = "done"
    /\ cpc # "done" => transcript = <<>>

\* A finished CLI collate of a list that repeats a name, in which one query
\* raised and another succeeded.
C1_Witness ==
    /\ cpc = "done"
    /\ impl = "cli"
    /\ Len(table) < Len(Declared)
    /\ \E i, j \in 1..Len(tasks) :
         /\ tasks[i].outcome = "raises" /\ table[i].error
         /\ tasks[j].outcome = "success" /\ ~table[j].error

\* C2 as stated: every selected provider's query is in flight before any
\* provider's query has been awaited to completion.
C2_AllIssuedBeforeAnyCompletes ==
    (\E i \in 1..Len(tasks) : tasks[i].state = "done")
        => \A j \in 1..Len(tasks) : tasks[j].state # "created"


(***************************************************************************)
(* Claims about query() and stream_query()                                 *)
(***************************************************************************)

\* C3: query() ends by returning an LLMResponse and lets no exception out;
\* after a missing key or any failed call the response has error set and
\* empty content, and a response built without a failure is not an error.
C3_QueryAlwaysReturnsResponse ==
    /\ ~qRaised
    /\ qpc = "done" =>
         /\ Len(qResponse) = 1
         /\ qFailure # <<>> =>
              /\ is_error(qResponse[1])
              /\ qResponse[1].error # None
              /\ qResponse[1].content = ""
         /\ qFailure = <<>> => ~is_error(qResponse[1])
         /\ qResponse[1].provider = qProvider
    /\ qpc \notin {"done", "idle"} => ENABLED QueryNext

\* A query whose SDK call failed after the key check passed has returned.
C3_Witness ==
    /\ qpc = "done"
    /\ qKey
    /\ qFailure = <<"call", "ClientError">>
    /\ Len(qResponse) = 1
    /\ is_error(qResponse[1])

IsErrorChunk(c) == c \in ErrorChunks

\* The failures that happen before any content chunk can have been yielded.
EarlyFailure == sFailure # <<>> /\ sFailure[1] # "stream"

\* C4 as stated: after any failure the chunk sequence is a single error chunk.
C4_FailureYieldsSingleChunk ==
    /\ ~sRaised
    /\ (spc = "done" /\ sFailure # <<>>) =>
         /\ Len(chunks) = 1
         /\ IsErrorChunk(chunks[1])

\* C4 amended: stream_query never raises; on any failure it yields exactly
\* one error chunk, as its last chunk; a failure before the stream delivers
\* (missing key, missing model, non-200 reply, failure to open) makes that
\* the only chunk, and a failure while the stream is read leaves the text
\* chunks already yielded in front of it. Without a failure no chunk is an
\* error chunk.
C4_FailureYieldsOneErrorChunkLast ==
    /\ ~sRaised
    /\ (spc = "done" /\ sFailure # <<>>) =>
         /\ Len(chunks) >= 1
         /\ IsErrorChunk(chunks[Len(chunks)])
         /\ \A i \in 1..(Len(chunks) - 1) : ~IsErrorChunk(chunks[i])
         /\ EarlyFailure => Len(chunks) = 1
    /\ sFailure = <<>> => \A i \in 1..Len(chunks) : ~IsErrorChunk(chunks[i])

\* A stream that broke after it had yielded text.
C4_Witness ==
    /\ spc = "done"
    /\ sFailure = <<"stream", "ClientError">>
    /\ Len(chunks) > 1
    /\ IsErrorChunk(chunks[Len(chunks)])

\* C5 as stated: when the Ollama server cannot be reached the response
\* carries the connection-failure message, not the model-not-found one.
C5_UnreachableServerIsConnectionError ==
    (qpc = "done" /\ qProvider = "ollama" /\ qFailure # <<>>
       /\ qFailure[2] \in {"refused", "ClientError"}) =>
        /\ Len(qResponse) = 1
        /\ qResponse[1].error = OllamaErrorMessage("ClientError")
        /\ qResponse[1].error # ModelNotFound

(***************************************************************************)
(* Claims about the transcript                                             *)
(***************************************************************************)

\* Entry e shows the raw text of some error.
ShowsRawError(e) ==
    \E k \in 1..Len(e.sections) : \E t \in 1..Len(e.sections[k].body.text) :
        e.sections[k].body.text[t] \in RawErrors

\* Entry e holds the terse pointer "Failed (see log with timestamp T)".
HasTersePointer(e, timestamp) ==
    \E k \in 1..Len(e.sections) :
        e.sections[k].body.terse /\ e.sections[k].body.see = timestamp

\* C6 as stated: every failed interaction, by any path, leaves only the terse
\* pointer in the transcript and its raw error text in the error file; the
\* raw error text never appears in the transcript.
C6_TranscriptNeverShowsRawError ==
    /\ \A i \in 1..Len(transcript) : ~ShowsRawError(transcript[i])
    /\ \A f \in 1..Len(failed) :
         /\ \E i \in 1..Len(transcript) :
              /\ transcript[i].timestamp = failed[f].timestamp
              /\ HasTersePointer(transcript[i], failed[f].timestamp)
         /\ \E j \in 1..Len(errors) :
              /\ errors[j].timestamp = failed[f].timestamp
              /\ errors[j].error = failed[f].error

(***************************************************************************)
(* Claims about the MCP client                                             *)
(***************************************************************************)

\* C7: the k-th value the id generator returns is k; send_message gives a
\* message the next counter value exactly when the message has no id, and
\* leaves an id that is present (0 and strings included) as it is, consuming
\* no counter value; every message posted has an id.
C7_IdsCountFromOneAndPresentIdsAreKept ==
    /\ issued = [k \in 1..Len(issued) |-> k]
    /\ _request_id = Len(issued)
    /\ last # <<>> =>
         IF last[1].given.id = NoId
         THEN /\ last[1].after = last[1].counter + 1
              /\ last[1].sent.id = IntId(last[1].after)
         ELSE /\ last[1].after = last[1].counter
              /\ last[1].sent.id = last[1].given.id
    /\ \A i \in 1..Len(wire) : "id" \in wire[i].keys /\ wire[i].id # NoId

\* A message with id 0 was sent as it was, after the generator had served a
\* message without id and a direct call.
C7_Witness ==
    /\ last # <<>>
    /\ last[1].given.id = IntId(0)
    /\ Len(wire) >= 2
    /\ wire[Len(wire)].id = IntId(0)
    /\ wire[1].id = IntId(1)
    /\ Len(issued) >= 2

\* C8: send_message never raises. Any exception of the transport (a closed
\* session and an unparseable 200 body included) gives an error response with
\* code -32603; otherwise a status other than 200 gives an error response with
\* the status as code and the body as data; each of these responses carries
\* the id of the request sent.
C8_SendMessageReturnsErrorResponses ==
    last # <<>> =>
      /\ ~last[1].raised
      /\ Len(last[1].response) = 1
      /\ LET l == last[1]
             r == l.response[1]
             failed_transport == l.session = "closed" \/ l.outcome.exc # None
         IN  /\ failed_transport =>
                  /\ r.error # <<>>
                  /\ r.error[1].code = 0 - 32603
                  /\ r.id = l.sent.id
             /\ ~failed_transport /\ l.outcome.status # 200 =>
                  /\ r.error # <<>>
                  /\ r.error[1].code = l.outcome.status
                  /\ r.error[1].data = l.outcome.body
                  /\ r.id = l.sent.id

\* A message was sent through a session already closed and came back as
\* error -32603 with the request's id.
C8_Witness ==
    /\ last # <<>>
    /\ last[1].session = "closed"
    /\ ~last[1].raised
    /\ last[1].response # <<>>
    /\ last[1].response[1].error[1].code = 0 - 32603
    /\ last[1].response[1].id = last[1].sent.id
    /\ last[1].given.id = NoId

(***************************************************************************)
(* Claims about the `mcp` commands                                         *)
(***************************************************************************)

\* The methods of the requests sent after the first message.
RequestsAfterFirst == [i \in 1..(Len(wire) - 1) |-> wire[i + 1].method]

InitFailed == init_response # <<>> /\ init_response[1].error # <<>>

InitSucceeded == init_response # <<>> /\ init_response[1].error = <<>>

\* The one request the subcommand's arguments resolve to: raw JSON message,
\* then method with params, then simple command; <<>> when nothing is sent.
CliRequest(a) ==
    IF a.raw /\ a.message # <<>>
    THEN IF JsonObject(a.message)
         THEN <<IF "m" \in {a.message[i] : i \in 1..Len(a.message)}
                THEN "tools/list" ELSE "">>
         ELSE <<>>
    ELSE IF a.method # None
    THEN IF a.params # <<>> /\ ~JsonObject(a.params) THEN <<>> ELSE <<a.method>>
    ELSE IF lower(a.message) = <<"ping">> THEN <<"ping">>
    ELSE IF lower(a.message) \in {<<"list", "tools">>, <<"tools">>} THEN <<"tools/list">>
    ELSE IF lower(a.message) \in {<<"list", "resources">>, <<"resources">>}
    THEN <<"resources/list">>
    ELSE IF lower(a.message) \in {<<"list", "prompts">>, <<"prompts">>}
    THEN <<"prompts/list">>
    ELSE <<>>

\* The fixed commands of the built-in.
ShellFixedRequest(a) ==
    IF a.message[1] = "ping" THEN <<"ping">>
    ELSE IF a.message[1] = "tools" THEN <<"tools/list">>
    ELSE IF a.message[1] = "resources" THEN <<"resources/list">>
    ELSE IF a.message[1] = "prompts" THEN <<"prompts/list">>
    ELSE <<>>

InitializeFirstAndAbortOnError ==
    /\ wire # <<>> => wire[1].method = "initialize"
    /\ InitFailed => Len(wire) = 1

CliSendsResolvedRequest ==
    mImpl = "cli" /\ mpc = "done" /\ InitSucceeded =>
        RequestsAfterFirst = CliRequest(mArgs)

\* C9 as stated: initialize is the first message; after an error response to
\* it nothing more is sent; otherwise one request source is resolved (raw
\* JSON, then method+params, then simple command), and an unrecognized simple
\* command or malformed JSON sends nothing, in the subcommand and in the
\* shell built-in alike.
C9_UnrecognizedCommandSendsNothing ==
    /\ InitializeFirstAndAbortOnError
    /\ CliSendsResolvedRequest
    /\ mImpl = "shell" /\ mpc = "done" /\ InitSucceeded =>
         RequestsAfterFirst = ShellFixedRequest(mArgs)

\* C9, amended: as stated for the subcommand; the shell built-in has the
\* fixed commands only and sends, for any other command, the message its
\* translator makes of the command text, so it always sends one request.
C9_ShellSendsTranslationOfUnrecognizedCommand ==
    /\ InitializeFirstAndAbortOnError
    /\ CliSendsResolvedRequest
    /\ mImpl = "shell" /\ mpc = "done" /\ InitSucceeded =>
         /\ Len(wire) = 2
         /\ IF ShellFixedRequest(mArgs) # <<>>
            THEN RequestsAfterFirst = ShellFixedRequest(mArgs)
            ELSE /\ mSource = "translator"
                 /\ wire[2].method \in {"tools/list", "tools/call", "resources/list",
                                        "resources/read", "prompts/list",
                                        "prompts/get", "ping", "custom"}
                 /\ parse_simple_query(mArgs.message) = <<>> =>
                      /\ wire[2].method = "custom"
                      /\ wire[2].params = Params(<<<<"query", mArgs.message>>>>)

\* The built-in was given a command that is none of its fixed ones and that
\* no pattern matches, and sent it as a custom request.
C9_Witness ==
    /\ mImpl = "shell"
    /\ mpc = "done"
    /\ InitSucceeded
    /\ ShellFixedRequest(mArgs) = <<>>
    /\ Len(wire) = 2
    /\ wire[2].method = "custom"

(***************************************************************************)
(* Claims about the translator                                             *)
(***************************************************************************)

\* C10: translate tries pattern matching, then the LLM, then the fallback,
\* and returns the first result: after a pattern match the provider is never
\* queried; the provider is queried only if one was supplied and no pattern
\* matched; when neither yields a message (the provider's error response, its
\* exception or an unparseable reply included) the result is method custom
\* with the original text, verbatim, as params.query; translate never raises.
C10_TranslateTriesPatternThenLlmThenCustom ==
    /\ ~tRaised /\ tpc # "raised"
    /\ tPattern # <<>> =>
         /\ llmQueries = <<>>
         /\ tpc = "returned" /\ tResult = tPattern
    /\ llmQueries # <<>> =>
         /\ llm_provider
         /\ tpc # "start" /\ tPattern = <<>>
         /\ Len(llmQueries) = 1
    /\ tpc = "returned" /\ tPattern = <<>> =>
         /\ llm_provider => llmQueries # <<>>
         /\ IF tMessage # <<>>
            THEN tResult = tMessage /\ llmQueries[1].kind = "reply"
            ELSE /\ tResult[1].method = "custom"
                 /\ tResult[1].params = Params(<<<<"query", tQuery>>>>)
    /\ /\ tpc = "returned"
       /\ llmQueries # <<>>
       /\ \/ llmQueries[1].kind \in {"raises", "error"}
          \/ \A i \in 1..Len(llmQueries[1].content) : llmQueries[1].content[i] # "}"
       => tResult[1].method = "custom"

\* A query that lower() and strip() would change matched no pattern, the
\* provider's reply held no JSON object, and the custom fallback came back.
C10_Witness ==
    /\ tpc = "returned"
    /\ tQuery # strip(lower(tQuery))
    /\ llmQueries # <<>>
    /\ llmQueries[1].kind = "reply"
    /\ llmQueries[1].content # <<>>
    /\ tResult[1].method = "custom"
    /\ tResult[1].params = Params(<<<<"query", tQuery>>>>)

(***************************************************************************)
(* Claims about the command history                                        *)
(***************************************************************************)

\* The arguments of add() that are not empty and not `exit` or `quit`.
AcceptedSoFar ==
    SelectSeq(addArgs, LAMBDA c : c # <<>> /\ c # <<"exit">> /\ c # <<"quit">>)

C12_DangerousCommandRunsOnlyAfterYes ==
    /\ \A i \in 1..Len(executed) :
          executed[i].via = "typed" /\ check_dangerous(executed[i].command) # <<>>
             => executed[i].typed = <<"y">>
    /\ /\ lastLine # <<>>
       /\ lastLine[1].via = "typed"
       /\ lastLine[1].warning # <<>>
       /\ lastLine[1].typed # <<"y">>
       => /\ ~lastLine[1].ran
          /\ lastLine[1].typed[1] \in {"n", ""} => lastLine[1].next = "prompt"

\* The empty answer was given to the warning about `firmware -rf`, which was
\* not executed.
C12_Witness ==
    /\ lastLine # <<>>
    /\ lastLine[1].command = <<"firmware", " ", "-rf">>
    /\ lastLine[1].warning = <<"rm">>
    /\ lastLine[1].typed = <<"">>
    /\ ~lastLine[1].ran
    /\ rpc = "prompt"
    /\ executed = <<>>

(***************************************************************************)
(* Claims about execute_command                                            *)
(***************************************************************************)

\* C13: execute_command("cd"), `cd` with no argument, leaves the tracked
\* current directory and the working directory of the process at the home
\* directory, wherever the shell was.
C13_BareCdGoesHome ==
    xLast # <<>> /\ xLast[1].command = <<"cd">> =>
       /\ xLast[1].dir_after = Home
       /\ xLast[1].cwd_after = Home

\* C14: after a `cd` the tracked current directory is the working directory
\* of the process, and a `cd` that returns a non-zero exit code leaves both
\* as they were.
C14_CdKeepsTrackedAndProcessDirectoryEqual ==
    xLast # <<>> /\ xLast[1].handler = "cd" =>
       /\ xLast[1].dir_after = xLast[1].cwd_after
       /\ xLast[1].code # 0 =>
            /\ xLast[1].dir_after = xLast[1].dir_before
            /\ xLast[1].cwd_after = xLast[1].cwd_before

\* Whether a command is one the shell takes for an LLM query: it is no
\* built-in and starts with no reserved keyword.
ImplicitQuery(command) ==
    /\ command # <<>>
    /\ command[1] \notin
         {"cd", "cdrom", "pwd", "export", "alias", "history", "clear", "cls",
          "help", "helpful", "exit", "quit", "env", "llm", "mcp", "collate",
          "generate", "..", "..."}

\* C15: a command that is no built-in and starts with no reserved keyword
\* makes one query to the default provider, and the text of the query is the
\* command, character for character.
C15_ImplicitQueryIsTheWholeInput ==
    xLast # <<>> /\ ImplicitQuery(xLast[1].command) =>
       /\ Len(xLast[1].queried) = 1
       /\ xLast[1].queried[1].provider = default_provider
       /\ xLast[1].queried[1].query = xLast[1].command

\* C16: `llm <token> "<query>"` with a token that is none of claude, openai,
\* ollama and gemini returns 1 with "Unknown provider" and asks no provider.
C16_UnknownProviderTokenIsRejected ==
    /\ xLast # <<>>
    /\ Len(xLast[1].command) >= 4
    /\ xLast[1].command[1] = "llm"
    /\ xLast[1].command[3] \notin {"claude", "openai", "ollama", "gemini", "\""}
    => /\ xLast[1].code = 1
       /\ xLast[1].err = "Unknown provider"
       /\ xLast[1].queried = <<>>

(***************************************************************************)
(* Claims about the environment manager                                    *)
(***************************************************************************)

\* The key/value pairs of a file, a later line replacing an earlier one with
\* the same key.
RECURSIVE PairsUpTo(_, _)
PairsUpTo(rows, n) ==
    IF n = 0 THEN EmptyDict
    ELSE IF parse_line(rows[n]).kind = "pair"
    THEN Put(PairsUpTo(rows, n - 1), parse_line(rows[n]).key,
             parse_line(rows[n]).value)
    ELSE PairsUpTo(rows, n - 1)

PairsOf(file) == IF file = <<>> THEN EmptyDict ELSE PairsUpTo(file[1], Len(file[1]))

\* C17: a successful reload_env() reports as added the keys of the file as it
\* is now (F2) that the file as it was loaded before (F1) did not have, as
\* removed the keys of F1 that F2 does not have, as modified the keys of both
\* whose values differ, and "no changes" exactly when all three are empty.
C17_ReloadReportsDifferenceOfFiles ==
    /\ eLast # <<>>
    /\ eLast[1].op = "reload_env"
    /\ eLast[1].success
    /\ eLast[1].previous # <<>>
    => LET F1 == PairsOf(eLast[1].previous[1])
           F2 == PairsOf(eLast[1].file)
           report == eLast[1].report[1]
       IN  /\ report.added = DOMAIN F2 \ DOMAIN F1
           /\ report.removed = DOMAIN F1 \ DOMAIN F2
           /\ report.modified =
                {key \in DOMAIN F1 \cap DOMAIN F2 : F1[key] # F2[key]}
           /\ report.no_changes <=>
                report.added = {} /\ report.removed = {} /\ report.modified = {}

\* C18: the loaded record is the key/value pairs of the file as it was at the
\* most recent successful load, so that get_mcp_servers() names only servers
\* of that file.
C18_LoadedRecordIsTheFileLastLoaded ==
    /\ loaded_file = <<>> => _loaded_vars = EmptyDict
    /\ loaded_file # <<>> =>
         /\ _loaded_vars = PairsOf(loaded_file[1])
         /\ get_mcp_servers(_loaded_vars) \subseteq DOMAIN PairsOf(loaded_file[1])

\* C19: load_env() of a file that exists returns True and has put every line
\* with `=` into the loaded record and into os.environ.
C19_LoadEnvTakesEveryPairOfTheFile ==
    eLast # <<>> /\ eLast[1].op = "load_env" /\ eLast[1].file # <<>> =>
       /\ eLast[1].success
       /\ \A i \in 1..Len(eLast[1].file[1]) :
            LET line == strip(eLast[1].file[1][i])
            IN  (\E k \in 1..Len(line) : line[k] = "=") /\ line[1] # "#" =>
                   \E key \in DOMAIN eLast[1].loaded :
                      /\ key \in DOMAIN eLast[1].environ
                      /\ key = strip(SubSeq(line, 1, FirstEquals(line) - 1))

(***************************************************************************)
(* Claims about the settings of a query                                    *)
(***************************************************************************)

\* C20: each setting that a query uses is the argument given at the call
\* site, else the value get_llm_config() reports for the provider (the
\* environment variable, else the fallback); so without a model argument the
\* query uses the model that get_llm_config() reports.
C20_SettingsAreArgumentThenEnvironmentThenFallback ==
    cLast # <<>> =>
       \A setting \in DOMAIN cLast[1].config :
          cLast[1].used[setting] =
             IF cLast[1].given[setting] # Unset
             THEN cLast[1].given[setting]
             ELSE cLast[1].config[setting]

(***************************************************************************)
(* Claims about the end of the prompt loop, --no-history and the history   *)
(* of declined commands                                                    *)
(***************************************************************************)

\* What ends the loop when typed at the prompt.
ExitWords == {<<"exit">>, <<"quit">>, <<"q">>}

\* C24: run() ends only by leaving its loop, and leaves it only when exit,
\* quit or q (in any case) was read at the prompt or when the input ended
\* (EOFError); after a KeyboardInterrupt or any other exception raised in a
\* pass through the loop, the loop is back at its prompt.
C24_LoopEndsOnlyOnExitOrEndOfInput ==
    /\ rpc # "raised"
    /\ rpc = "left" => lastEvent # <<>> /\ lastEvent[1].next = "left"
    /\ lastEvent # <<>> =>
          /\ lastEvent[1].next \in {"left", "raised"} <=>
                \/ lastEvent[1].raised = <<"EOFError">>
                \/ /\ lastEvent[1].at = "prompt"
                   /\ lastEvent[1].stage = "read"
                   /\ lastEvent[1].raised = <<>>
                   /\ lower(lastEvent[1].read) \in ExitWords
          /\ lastEvent[1].raised \notin {<<>>, <<"EOFError">>} =>
                /\ lastEvent[1].next = "prompt"
                /\ rpc = "prompt"

\* C26: in a shell started with --no-history, a line typed at the prompt that
\* is not empty, exit, quit, q or help and is not handed to the converter
\* reaches the dangerous-command check and, from there, execute_command; a
\* converted command confirmed with y reaches execute_command.
C26_NoHistoryStillExecutes ==
    no_history /\ lastEvent # <<>> /\ lastEvent[1].raised # <<"EOFError">> =>
       /\ /\ lastEvent[1].at = "prompt"
          /\ lastEvent[1].stage \notin {"read", "convert"}
          => lastEvent[1].stage \in {"check", "execute", "display"}
       /\ /\ lastEvent[1].at = "execute this"
          /\ lastEvent[1].read = <<"y">>
          => lastEvent[1].stage \in {"execute", "display"}

\* C30: once a pass through the loop is over, every command in the history
\* was passed to execute_command; a typed command declined at "Continue
\* anyway?" is neither in the history in memory nor in the history file.
C30_HistoryHoldsOnlyExecutedCommands ==
    /\ rpc \in {"prompt", "left", "raised"} =>
          \A i \in 1..Len(history) :
             \E j \in 1..Len(executed) : executed[j].command = history[i]
    /\ /\ lastLine # <<>>
       /\ lastLine[1].via = "typed"
       /\ lastLine[1].warning # <<>>
       /\ lastLine[1].typed \in {<<"n">>, <<"">>}
       => /\ \A i \in 1..Len(history) : history[i] # lastLine[1].command
          /\ \A i \in 1..Len(history_file[1]) :
                history_file[1][i] # lastLine[1].command

(***************************************************************************)
(* Claims about alias expansion                                            *)
(***************************************************************************)

\* The first whitespace-delimited token of a command, and the text after it.
FirstToken(command) ==
    LET blanks == {i \in 1..Len(command) : command[i] = " "}
    IN  IF blanks = {} THEN command ELSE SubSeq(command, 1, Min(blanks) - 1)

Remainder(command) ==
    SubSeq(command, Len(FirstToken(command)) + 1, Len(command))

\* C22: expand_alias(command) returns the command with its first
\* whitespace-delimited token replaced by the alias table's entry for it and
\* the text after that token unchanged, quotes and blanks included; a command
\* whose first token is no alias is returned as it is.
C22_AliasReplacesOnlyTheFirstToken ==
    xLast # <<>> =>
       IF FirstToken(xLast[1].command) \in DOMAIN aliases
       THEN /\ xLast[1].handler # "raises"
            /\ expand_alias(xLast[1].command) =
                  aliases[FirstToken(xLast[1].command)]
                     \o Remainder(xLast[1].command)
       ELSE /\ xLast[1].handler # "raises"
            /\ expand_alias(xLast[1].command) = xLast[1].command

(***************************************************************************)
(* Claims about the session's environment                                  *)
(***************************************************************************)

\* C21: whatever the order of `export`, `env set` and `env reload` before it,
\* a reader sees for every variable the value written to it last: `env get`
\* (get_var), the settings of a provider, and the environment handed to a
\* subprocess.
C21_ReadersSeeTheLastWrite ==
    vLast # <<>> =>
       /\ vLast[1].op = "env get" =>
             \A d \in vLast[1].shown : d.value = written[d.key]
       /\ vLast[1].op = "env llm" =>
             \A d \in vLast[1].shown : d.key \in DOMAIN written => d.value = written[d.key]
       /\ vLast[1].op = "subprocess" =>
             \A key \in DOMAIN written : vLast[1].handed[1][key] = written[key]

\* An MCP server is configured: the MCP server registry, derived from the
\* record of what was loaded from the file, has a server.
Configured(loaded) ==
    \E key \in DOMAIN loaded : key = <<"MCP_X_SERVER">> /\ loaded[key] # <<>>

\* The query holds a keyword of the enrichment.
HasKeyword(query) == \E i \in 1..Len(query) : LowerWord(query[i]) = "database"

\* C23: the query logged by the shell's `llm`, on success, on error and when
\* streaming, is the query as typed, and the text sent to the provider is the
\* enriched text exactly when the query holds a keyword and at least one MCP
\* server is configured.
C23_TranscriptHasQueryAndProviderGetsEnrichedText ==
    vLast # <<>> /\ vLast[1].op = "llm" =>
       /\ \A i \in 1..Len(vLast[1].logged) : vLast[1].logged[i].query = vLast[1].key
       /\ vLast[1].sent[1].text =
             IF HasKeyword(vLast[1].key) /\ Configured(vLast[1].loaded)
             THEN vLast[1].key \o <<"\n\n", "AVAILABLE MCP TOOLS", "\n\n", "Please consider">>
             ELSE vLast[1].key

\* A streamed `llm` query with a keyword was sent enriched while a server was
\* configured, and was logged.
C23_Witness ==
    /\ vLast # <<>>
    /\ vLast[1].op = "llm"
    /\ HasKeyword(vLast[1].key)
    /\ Configured(vLast[1].loaded)
    /\ vLast[1].sent[1].stream
    /\ vLast[1].sent[1].text # vLast[1].key
    /\ Len(vLast[1].logged) = 1

\* The text shows no more of the value than its first four and last four
\* characters.
ShowsAtMostEnds(text, value) ==
    \/ text = <<"***">>
    \/ /\ Len(value) > 8
       /\ text = SubSeq(value, 1, 4) \o <<"...">>
                    \o SubSeq(value, Len(value) - 3, Len(value))

\* C28: no `env` subcommand and no `export` shows the whole value of a
\* variable whose name holds key, token, secret, password or auth: what is
\* shown of it is its first and last four characters at most, or `***`.
C28_SensitiveValuesAreMasked ==
    vLast # <<>> =>
       \A d \in vLast[1].shown :
          d.key[1] \in {"OPENAI_API_KEY"} => ShowsAtMostEnds(d.text, d.value)

(***************************************************************************)
(* Claims about file search                                                *)
(***************************************************************************)

\* The six extensions of source files.
SourceExtensions == {"py", "js", "ts", "java", "c", "cpp"}

\* C25: on the Spotlight path the type `code` lets through every file whose
\* content type is source code or whose name ends in one of the six source
\* extensions; that one condition is joined by AND with the name and content
\* conditions, so the results are the files that meet the name condition, the
\* content condition and any one of the seven alternatives.
C25_CodeTypeIsOneDisjunction ==
    /\ fLast # <<>>
    /\ fLast[1].cmd.tool = "mdfind"
    /\ fLast[1].file_type = <<"code">>
    => \A file \in SampleFiles :
          file \in fLast[1].results <=>
             /\ fLast[1].pattern # "*" =>
                   Glob(<<"*", fLast[1].pattern, "*">>, file.name)
             /\ fLast[1].content_pattern # <<>> =>
                   Glob(<<"*", fLast[1].content_pattern[1], "*">>, file.text)
             /\ \/ file.type = "public.source-code"
                \/ \E ext \in SourceExtensions : Glob(<<"*", ".", ext>>, file.name)

\* C27: on the Spotlight path and on the find path alike, a size filter and a
\* date filter given to search_files() constrain the search: every file of
\* the results meets them.
C27_SizeAndDateFiltersHonouredOnBothPaths ==
    fLast # <<>> =>
       /\ fLast[1].size_filter = <<">", "1", "MB">> =>
             \A file \in fLast[1].results : file.size > 1048576
       /\ lower(fLast[1].date_filter) = <<"today">> =>
             \A file \in fLast[1].results : file.days < 1
       /\ lower(fLast[1].date_filter) = <<"last", " ", "week">> =>
             \A file \in fLast[1].results : file.days < 7

(***************************************************************************)
(* Claims about the methods of translated messages                         *)
(***************************************************************************)

\* The values of MCPMethod.
MCPMethods ==
    {"initialize", "ping", "tools/list", "tools/call", "resources/list",
     "resources/read", "resources/write", "prompts/list", "prompts/get",
     "custom"}

\* C29: the message translate() returns has a method, and the method is one
\* of the values of MCPMethod, whichever strategy made the message and
\* whatever the LLM replied.
C29_ReturnedMethodIsEnumerated ==
    tResult # <<>> => tResult[1].method # "" /\ tResult[1].method \in MCPMethods

=============================================================================
